---- MODULE Spec2Model ----
(***************************************************************************)
(* Personalization-and-document-assembly pipeline of fhm-app.              *)
(*                                                                         *)
(* The model follows one background worker (process_orders_thread of       *)
(* gui_app.py) through a batch: cleanup_old_pdfs, process_all_orders of    *)
(* process_orders.py, then the collect / verify / flatten / merge steps.   *)
(* The working directory is a function from file names to file contents,  *)
(* the archive directory one from file names to modification times (the    *)
(* program reads nothing else of an archived file).  Batches are started   *)
(* one at a time.                                                          *)
(*                                                                         *)
(* Time stamps (strftime "%Y%m%d_%H%M%S") are modelled by the value of a    *)
(* clock that advances with every batch: fixed-width stamps order          *)
(* alphabetically as they order in time.  File-system primitives (move,    *)
(* remove, replace, exists) succeed; the failures modelled are those the   *)
(* code tests for in rendering, page assembly, flattening and merging.     *)
(* A content digest is modelled by the content itself (no collisions).     *)
(***************************************************************************)
EXTENDS Integers, Sequences, FiniteSets, TLC

\* ---- bounds of the model ------------------------------------------------
MaxRequests == 4        \* requests processed over all batches of a behaviour
MaxFaults == 1          \* operations that fail in a behaviour
MaxTemplatePages == 2   \* page count of a template document
MaxBatches == 12        \* batches of a behaviour of SpecRetention
MaxNameLen == 65        \* characters of a display name
MaxPulls == 2           \* order-pull threads of a behaviour of SpecOrders
MaxMessages == 3        \* sale messages of the mailbox
MaxWorkers == 3         \* worker threads of a behaviour of SpecWorkers
MaxOrders == 2          \* order numbers of the sale messages

\* ---- program constants --------------------------------------------------
KeepMasters == 10       \* "keep last 10 master PDFs"

VARIABLES
    tplPages,     \* page count of format.pdf / boat_format.pdf (read-only input)
    cwd,          \* working directory: file name -> content
    archive,      \* pdf_archive: file name -> modification time
    outputs,      \* outputs directory: [magnet |-> images, boat |-> images]
    clock,        \* time stamp source
    processing,   \* OrderProcessorGUI.processing
    csv,          \* order list written to temp_orders.csv by process_orders
    pc,           \* position of the worker thread
    success,      \* result of process_all_orders
    listing,      \* order in which os.listdir returned the batch's files
    pdf_files,    \* process_orders_thread: pdf_files
    idx,          \* number of pages the current per-page loop has handled
    pre_flatten_status, \* STEP 1 record per file
    flattened,    \* successfully_flattened
    failed_flattening,
    post_checked, \* files STEP 3 has looked at
    master,       \* master_pdf_name of this run
    merged,       \* what merge_pdfs did in this run
    log,          \* log entries of this run
    stages,       \* the stages this run has entered, in order
    lastFlatten,  \* the most recent flatten_pdf_in_place call and its result
    asmLog,       \* what the assembler of process_all_orders did in this run
    verified,     \* time stamps of the batches whose STEP 6 has run
    finished,     \* time stamps of the batches whose worker has ended
    requestsLeft, faultsLeft,
    rendered,     \* the most recent call of a text rendering function
    missing,      \* the inputs of process_all_orders that do not exist
    selected_orders, \* OrderProcessorGUI.selected_orders: order numbers
    order_state,  \* order_state.json
    snippets,     \* etsy_sales_emails.txt: the order number of each section
    processed_file, \* processed_orders.txt: the keys of its lines
    inbox,        \* the sale messages of the mailbox, oldest first
    pulls,        \* the order-pull threads: position and locals
    workers       \* the batch worker threads that were started: position

vars == <<tplPages, cwd, archive, outputs, clock, processing, csv, pc, success,
          listing, pdf_files, idx, pre_flatten_status, flattened,
          failed_flattening, post_checked, master, merged, log, stages,
          lastFlatten, asmLog, verified, finished,
          requestsLeft, faultsLeft, rendered, missing,
          selected_orders, order_state, snippets, processed_file, inbox,
          pulls, workers>>
stateVars == <<selected_orders, order_state>>
pullVars == <<snippets, processed_file, inbox, pulls>>
bookVars == <<stateVars, pullVars, workers>>

\* ---- file names and contents -------------------------------------------
\* order_output_<ts>_<n>.pdf, boat_output_<ts>_<n>.pdf, MASTER_ORDER_<ts>.pdf;
\* tmp marks <name> + ".flattened_tmp.pdf"
Name(pre, ts, num) == [pre |-> pre, ts |-> ts, num |-> num, tmp |-> FALSE]
OrderName(ts, n) == Name("order_output", ts, n)
BoatName(ts, n) == Name("boat_output", ts, n)
MasterName(ts) == Name("MASTER_ORDER", ts, 0)
TempPath(f) == [f EXCEPT !.tmp = TRUE]
NoName == Name("none", 0, 0)

\* a PDF file: size 0 or positive, whether a reader opens it, its pages (what
\* each page shows), whether it was rasterized, its modification time
Pdf(size, readable, pages, flat, mtime) ==
    [size |-> size, readable |-> readable, pages |-> pages, flat |-> flat,
     mtime |-> mtime]
PageCount(c) == Len(c.pages)

Exists(dir, f) == f \in DOMAIN dir
Put(dir, f, c) == [g \in DOMAIN dir \cup {f} |-> IF g = f THEN c ELSE dir[g]]
Remove(dir, f) == [g \in DOMAIN dir \ {f} |-> dir[g]]
EmptyDir == [g \in {} |-> 0]

Range(s) == {s[k] : k \in 1..Len(s)}
Min(a, b) == IF a < b THEN a ELSE b

RECURSIVE SubsetsUpTo(_, _)
\* the subsets of S with at most k elements
SubsetsUpTo(S, k) ==
    IF k = 0 THEN {{}}
    ELSE LET T == SubsetsUpTo(S, k - 1)
         IN T \cup {t \cup {x} : t \in T, x \in S}

\* ---- flatten_pdf_in_place ----------------------------------------------
FlattenOutcomes == {"ok", "raises", "partial", "missing", "empty", "short"}

\* what rendering the pages and writer.save leave at the temporary path:
\* the rasterized document, nothing (an exception before or in save, or a
\* save that wrote no file), a partial file, an empty file, a file that
\* lost a page
SavedTemp(dir, temp, orig, outcome, now) ==
    CASE outcome = "ok" ->
           Put(dir, temp, Pdf(1, TRUE, orig.pages, TRUE, now))
      [] outcome = "partial" ->
           Put(dir, temp, Pdf(1, FALSE, <<>>, TRUE, now))
      [] outcome = "empty" ->
           Put(dir, temp, Pdf(0, FALSE, <<>>, TRUE, now))
      [] outcome = "short" ->
           Put(dir, temp, Pdf(1, TRUE, Tail(orig.pages), TRUE, now))
      [] OTHER -> dir

\* a faulty except branch: the temporary file stays
FlattenFailed_keepsTemp(dir, temp) == [dir |-> dir, ret |-> FALSE]
\* the except branch: remove the temporary file if it exists, return False
FlattenFailed(dir, temp) ==
    [dir |-> IF Exists(dir, temp) THEN Remove(dir, temp) ELSE dir, ret |-> FALSE]

\* a faulty replacement: os.replace first, the checks of the file after it
FlattenReplace_beforeChecks(dir, pdf_path, temp, original_page_count) ==
    IF ~Exists(dir, temp) THEN FlattenFailed(dir, temp)
    ELSE LET replaced == Put(Remove(dir, temp), pdf_path, dir[temp])
         IN IF \/ dir[temp].size = 0
               \/ ~dir[temp].readable
               \/ PageCount(dir[temp]) # original_page_count
            THEN FlattenFailed(replaced, temp)
            ELSE [dir |-> replaced, ret |-> TRUE]
\* Steps 7 to 10: check the temporary file, then os.replace
FlattenReplace(dir, pdf_path, temp, original_page_count) ==
    IF ~Exists(dir, temp) THEN FlattenFailed(dir, temp)
    ELSE IF dir[temp].size = 0 THEN FlattenFailed(Remove(dir, temp), temp)
    ELSE IF ~dir[temp].readable THEN FlattenFailed(dir, temp)
    ELSE IF PageCount(dir[temp]) # original_page_count
         THEN FlattenFailed(Remove(dir, temp), temp)
    ELSE LET replaced == Put(Remove(dir, temp), pdf_path, dir[temp])
         IN IF PageCount(replaced[pdf_path]) # original_page_count
            THEN FlattenFailed(replaced, temp)
            ELSE [dir |-> replaced, ret |-> TRUE]

\* flatten_pdf_in_place(pdf_path): the directory afterwards and the result
FlattenPdfInPlace(dir, pdf_path, outcome, now) ==
    IF ~Exists(dir, pdf_path) THEN [dir |-> dir, ret |-> FALSE]
    ELSE IF dir[pdf_path].size = 0 THEN [dir |-> dir, ret |-> FALSE]
    ELSE IF ~dir[pdf_path].readable THEN [dir |-> dir, ret |-> FALSE]
    ELSE IF PageCount(dir[pdf_path]) = 0 THEN [dir |-> dir, ret |-> FALSE]
    ELSE LET temp == TempPath(pdf_path)
             cleared == IF Exists(dir, temp) THEN Remove(dir, temp) ELSE dir
         IN IF outcome \in {"raises", "partial"}
            THEN FlattenFailed(
                     SavedTemp(cleared, temp, dir[pdf_path], outcome, now), temp)
            ELSE FlattenReplace(
                     SavedTemp(cleared, temp, dir[pdf_path], outcome, now),
                     pdf_path, temp, PageCount(dir[pdf_path]))

\* ---- text rendering ----------------------------------------------------
\* lengths in fifths of a pixel; an angle is
\*   deg2 / 2 degrees - span / (2 * over) + mid2 / (2 * radius) radians,
\* its four integers kept apart so that no rounding enters the comparison
BOAT_TEXT_CENTER_X == 950
BOAT_TEXT_CENTER_Y == 4220
BOAT_TEXT_RADIUS == 2700
BOAT_TEXT_ANGLE == 90
BOAT_TEXT_KERNING == 6
BOAT_TEXT_REFERENCE_LENGTH == 16
BOAT_TEXT_BASE_FONT_SIZE == 120
BOAT_TEXT_FONT_SCALE_PER_CHAR == 4
BOAT_TEXT_MIN_FONT_SIZE == 60
BOAT_TEXT_MAX_FONT_SIZE == 180
BOAT_TEXT_RADIUS_SCALE_PER_CHAR == 50
BOAT_TEXT_Y_SCALE_PER_CHAR == 50
Fifths(px) == 5 * px
Max(a, b) == IF a > b THEN a ELSE b

\* font.getlength(ch): the advance of a glyph grows with the font size; a
\* blank and a narrow letter take a tenth, a wide letter four tenths and
\* any other letter two tenths of the size per fifth of a pixel
glyph_advance(ch, font_size) ==
    CASE ch \in {" ", "i"} -> font_size
      [] ch \in {"M", "W"} -> 4 * font_size
      [] OTHER -> 2 * font_size

\* advances: the advance of every glyph, plus the kerning for all but the last
Advances(text, font_size, kerning) ==
    [i \in 1..Len(text) |->
        glyph_advance(text[i], font_size)
            + (IF i - 1 < Len(text) - 1 THEN kerning ELSE 0)]
RECURSIVE SumTo(_, _)
SumTo(advances, k) ==
    IF k = 0 THEN 0 ELSE advances[k] + SumTo(advances, k - 1)

\* str.strip() == "": leading and trailing blanks removed
RECURSIVE lstrip(_)
lstrip(name) ==
    IF name # <<>> /\ Head(name) = " " THEN lstrip(Tail(name)) ELSE name
\* a faulty reversal: the text as it is
Reversed_not(text) == text
\* text[::-1]
Reversed(text) == [i \in 1..Len(text) |-> text[Len(text) + 1 - i]]
strip(name) == Reversed(lstrip(Reversed(lstrip(name))))
\* a faulty test: only the empty string counts as no name
NoNameGiven_emptyOnly(name) == name = <<>>
\* not name or name.strip() == ""
NoNameGiven(name) == name = <<>> \/ strip(name) = <<>>

\* an image: the artwork it shows, the glyphs composited onto it, and
\* whether its bytes are those of the artwork file or a new encoding
SourceImage(image_path) ==
    [pixels |-> image_path, glyphs |-> <<>>, bytes |-> "source"]
\* Image.open(image_path).convert("RGBA")
Opened(image_path) ==
    [pixels |-> image_path, glyphs |-> <<>>, bytes |-> "decoded"]
\* output_img.save(output_path)
Saved(img) ==
    [pixels |-> img.pixels, glyphs |-> img.glyphs, bytes |-> "encoded"]

\* base_img.alpha_composite(glyph_rot, ...) for the glyphs in turn
Composited(base_img, glyphs) ==
    [pixels |-> base_img.pixels, glyphs |-> base_img.glyphs \o glyphs,
     bytes |-> base_img.bytes]
\* one glyph: its character, the centre and radius of its circle, its angle
Glyph(ch, center, glyph_radius, deg2, span, over, mid2, radius) ==
    [ch |-> ch, center |-> center, at |-> glyph_radius,
     deg2 |-> deg2, span |-> span, over |-> over, mid2 |-> mid2,
     radius |-> radius]
Drawn(raised, img) == [raised |-> raised, img |-> img]

\* a faulty guard: a radius that is not positive is replaced by one pixel
RadiusGuard_clamps(radius) == [raised |-> FALSE, radius |-> Max(radius, 5)]
\* if radius <= 0: raise ValueError("radius must be > 0")
RadiusGuard(radius) == [raised |-> radius <= 0, radius |-> radius]

\* draw_text_on_arc(base_img, text, center=, radius=, font_size=,
\* angle_deg=, kerning=): the asymmetric layout of the paired style
draw_text_on_arc(base_img, text, center, radius0, font_size, angle_deg, kerning) ==
    LET advances == Advances(text, font_size, kerning)
        text_width == SumTo(advances, Len(text))
        guard == RadiusGuard(radius0)
        radius == guard.radius
        len == Len(text)
        current_radius ==
            IF len > 10 THEN radius + (len - 10) * (-Fifths(11))
            ELSE IF len > 6 THEN radius + (len - 6) * (-Fifths(6))
            ELSE radius
        y_offset == IF len > 6 THEN (len - 6) * Fifths(2) ELSE 0
        x_offset == IF len > 6 THEN (len - 6) * 4 ELSE 0
        angle_adjustment2 ==
            IF len > 10 THEN (len - 10) * 2
            ELSE IF len > 6 THEN len - 5
            ELSE 0
    IN IF guard.raised THEN Drawn("ValueError", base_img)
       ELSE IF current_radius = 0 THEN Drawn("ZeroDivisionError", base_img)
       ELSE Drawn("no", Composited(base_img,
                [k \in 1..len |->
                    Glyph(text[k],
                          <<center[1] - x_offset, center[2] - y_offset>>,
                          IF k - 1 >= 6 THEN radius + Fifths((k - 1) - 5)
                          ELSE radius,
                          2 * angle_deg + angle_adjustment2,
                          text_width, current_radius,
                          2 * SumTo(advances, k - 1) + advances[k],
                          radius)]))

\* draw_boat_text_on_arc: the symmetric layout of the single-slot style
draw_boat_text_on_arc(base_img, text, center, radius0, font_size, angle_deg, kerning) ==
    LET advances == Advances(text, font_size, kerning)
        text_width == SumTo(advances, Len(text))
        guard == RadiusGuard(radius0)
        radius == guard.radius
    IN IF guard.raised THEN Drawn("ValueError", base_img)
       ELSE Drawn("no", Composited(base_img,
                [k \in 1..Len(text) |->
                    Glyph(text[k], center, radius, 2 * angle_deg,
                          text_width, radius,
                          2 * SumTo(advances, k - 1) + advances[k],
                          radius)]))

\* a faulty scaling: the font size is not clamped
calculate_boat_text_settings_noClamp(name) ==
    LET length_diff == Len(name) - BOAT_TEXT_REFERENCE_LENGTH
    IN [font_size |-> BOAT_TEXT_BASE_FONT_SIZE
                          - length_diff * BOAT_TEXT_FONT_SCALE_PER_CHAR,
        radius |-> BOAT_TEXT_RADIUS
                       + length_diff * BOAT_TEXT_RADIUS_SCALE_PER_CHAR,
        center |-> <<BOAT_TEXT_CENTER_X,
                     BOAT_TEXT_CENTER_Y
                         + length_diff * BOAT_TEXT_Y_SCALE_PER_CHAR>>]
\* calculate_boat_text_settings(name)
calculate_boat_text_settings(name) ==
    LET length_diff == Len(name) - BOAT_TEXT_REFERENCE_LENGTH
    IN [font_size |->
            Max(BOAT_TEXT_MIN_FONT_SIZE,
                Min(BOAT_TEXT_MAX_FONT_SIZE,
                    BOAT_TEXT_BASE_FONT_SIZE
                        - length_diff * BOAT_TEXT_FONT_SCALE_PER_CHAR)),
        radius |-> BOAT_TEXT_RADIUS
                       + length_diff * BOAT_TEXT_RADIUS_SCALE_PER_CHAR,
        center |-> <<BOAT_TEXT_CENTER_X,
                     BOAT_TEXT_CENTER_Y
                         + length_diff * BOAT_TEXT_Y_SCALE_PER_CHAR>>]

\* what a create_personalized_* call leaves at output_path (nothing when it
\* raised), with the settings it drew the text with (none without a name)
Personalized(raised, out, settings) ==
    [raised |-> raised, out |-> out, settings |-> settings]
NoSettings == [font_size |-> 0, radius |-> 0, center |-> <<0, 0>>]
NoFile == [pixels |-> "", glyphs |-> <<>>, bytes |-> "absent"]
PairedSettings(image_path) ==
    [font_size |-> IF image_path \in {"dog-", "rubberduck-"} THEN 90 ELSE 100,
     radius |-> 600, center |-> <<780, 690>>]

\* create_personalized_image(name, image_path, output_path)
create_personalized_image(name, image_path) ==
    IF NoNameGiven(name)
    THEN Personalized("no", SourceImage(image_path), NoSettings)
    ELSE LET s == PairedSettings(image_path)
             drawn == draw_text_on_arc(Opened(image_path), name,
                          <<Fifths(s.center[1]), Fifths(s.center[2])>>,
                          Fifths(s.radius), s.font_size, 270, 6)
         IN IF drawn.raised # "no" THEN Personalized(drawn.raised, NoFile, s)
            ELSE Personalized("no", Saved(drawn.img), s)

\* create_personalized_boat_image(name, image_path, output_path)
create_personalized_boat_image(name, image_path) ==
    IF NoNameGiven(name)
    THEN Personalized("no", SourceImage(image_path), NoSettings)
    ELSE LET s == calculate_boat_text_settings(name)
             drawn == draw_boat_text_on_arc(Opened(image_path),
                          Reversed(name),
                          <<Fifths(s.center[1]), Fifths(s.center[2])>>,
                          Fifths(s.radius), s.font_size, BOAT_TEXT_ANGLE,
                          BOAT_TEXT_KERNING)
         IN IF drawn.raised # "no" THEN Personalized(drawn.raised, NoFile, s)
            ELSE Personalized("no", Saved(drawn.img), s)

\* ---- process_all_orders ------------------------------------------------
\* a request is the character of a csv row: two magnet characters, a boat
OrderKinds == {"mA", "mB", "boat"}
is_boat_order(character) == character = "boat"

\* the failures of one process_all_orders call: a set of [op, at, how];
\* op "lookup" (no artwork file for the character) or "render" (the
\* rendering raises) at a csv row, "asm" at a pair number, "boat_asm" at a
\* boat number
AsmFaults == {"raise", "empty", "corrupt"}
FaultPoints(n) ==
    [op : {"lookup", "render"}, at : 1..n, how : {"raise"}]
      \cup [op : {"asm"}, at : 1..(n \div 2), how : AsmFaults]
      \cup [op : {"boat_asm"}, at : 1..n, how : AsmFaults]
Fails(F, op, at) == \E f \in F : f.op = op /\ f.at = at
\* find_image_file / find_boat_image_file: None when no file matches
find_image_file(F, i) == ~Fails(F, "lookup", i)
HowFails(F, op, at) ==
    IF Fails(F, op, at)
    THEN (CHOOSE f \in F : f.op = op /\ f.at = at).how ELSE "ok"

RECURSIVE GenerateImages_substitutes(_, _, _, _)
\* faulty image loops: a request whose rendering raises gets the image all
\* the same
GenerateImages_substitutes(orders, i, boats, F) ==
    IF i > Len(orders) THEN <<>>
    ELSE IF is_boat_order(orders[i]) # boats \/ ~find_image_file(F, i)
         THEN GenerateImages_substitutes(orders, i + 1, boats, F)
         ELSE <<[req |-> i, art |-> orders[i]]>>
                  \o GenerateImages_substitutes(orders, i + 1, boats, F)

RECURSIVE GenerateImages(_, _, _, _)
\* the image loops of steps [4/7] and [5/7]: one image per request of the
\* wanted style whose artwork is found and whose rendering does not raise;
\* image k of the result is file magnet_<k>.png (boat_<k>.png)
GenerateImages(orders, i, boats, F) ==
    IF i > Len(orders) THEN <<>>
    ELSE IF is_boat_order(orders[i]) # boats
              \/ ~find_image_file(F, i) \/ Fails(F, "render", i)
         THEN GenerateImages(orders, i + 1, boats, F)
         ELSE <<[req |-> i, art |-> orders[i]]>>
                  \o GenerateImages(orders, i + 1, boats, F)

\* the sets of at most k failures that each strike an operation the call
\* performs
FaultSets(orders, k) ==
    {F \in SubsetsUpTo(FaultPoints(Len(orders)), k) :
        /\ \A f, g \in F : (f.op = g.op /\ f.at = g.at) => f = g
        /\ \A f \in F :
              CASE f.op = "render" -> find_image_file(F, f.at)
                [] f.op = "asm" ->
                     f.at <= Len(GenerateImages(orders, 1, FALSE, F)) \div 2
                [] f.op = "boat_asm" ->
                     f.at <= Len(GenerateImages(orders, 1, TRUE, F))
                [] OTHER -> TRUE}

\* one page of a generated document: the template page it came from and the
\* artifacts merged onto it (paired: <<top, bottom>>; single: <<boat>>)
Page(tpl, no, arts) == [tpl |-> tpl, no |-> no, arts |-> arts]

\* the transformation matrices (scale, 0, 0, scale, x, y) of the image pages:
\* positions in tenths of a point, the scale as thousandths of
\* img_width / 1500
common_x == 1210
ty1 == 3960
ty2 == 360
scale_factor == 1027
BOAT_PDF_X == -95
BOAT_PDF_Y == 800
BOAT_PDF_SCALE == 1410
\* add_transformation: the image with its position and scale on the page
Transformed(img, tx, ty, target_scale) ==
    [req |-> img.req, art |-> img.art, x |-> tx, y |-> ty,
     scale |-> target_scale]
\* a faulty placement: image1 at the bottom, image2 at the top
PairOnPage_swapped(image1, image2) ==
    <<Transformed(image1, common_x, ty2, scale_factor),
      Transformed(image2, common_x, ty1, scale_factor)>>
\* create_pdf_with_images: image1 at (common_x, ty1), image2 at
\* (common_x, ty2), both at target_scale
PairOnPage(image1, image2) ==
    <<Transformed(image1, common_x, ty1, scale_factor),
      Transformed(image2, common_x, ty2, scale_factor)>>
\* create_boat_pdf: the one image at (BOAT_PDF_X, BOAT_PDF_Y)
BoatOnPage(boat_image) ==
    <<Transformed(boat_image, BOAT_PDF_X, BOAT_PDF_Y, BOAT_PDF_SCALE)>>

\* a faulty assembly: the artifacts go onto the first page of the template
TemplateWithImages_firstPage(tpl, num_pages, arts) ==
    [j \in 1..num_pages |-> Page(tpl, j, IF j = 1 THEN arts ELSE <<>>)]
\* create_pdf_with_images / create_boat_pdf: all pages of the template, the
\* artifacts merged onto page num_pages // 2 (counted from 0)
TemplateWithImages(tpl, num_pages, arts) ==
    [j \in 1..num_pages |->
        Page(tpl, j, IF j = (num_pages \div 2) + 1 THEN arts ELSE <<>>)]

\* a faulty assembly: a call that raises before writing leaves an empty file
WrittenPdf_raiseLeavesFile(dir, output_pdf, pages, how, now) ==
    CASE how = "ok" -> Put(dir, output_pdf, Pdf(1, TRUE, pages, FALSE, now))
      [] how = "corrupt" -> Put(dir, output_pdf, Pdf(1, FALSE, <<>>, FALSE, now))
      [] OTHER -> Put(dir, output_pdf, Pdf(0, FALSE, <<>>, FALSE, now))
\* what a create_pdf call leaves at output_pdf: the document, nothing (it
\* raised before writing), an empty file or an unreadable file (it raised
\* when verifying what it wrote)
WrittenPdf(dir, output_pdf, pages, how, now) ==
    CASE how = "ok" -> Put(dir, output_pdf, Pdf(1, TRUE, pages, FALSE, now))
      [] how = "empty" -> Put(dir, output_pdf, Pdf(0, FALSE, <<>>, FALSE, now))
      [] how = "corrupt" -> Put(dir, output_pdf, Pdf(1, FALSE, <<>>, FALSE, now))
      [] OTHER -> dir

RECURSIVE MagnetPdfs_placesLast(_, _, _, _, _, _)
\* a faulty pairing loop: an odd last image gets a document of its own
MagnetPdfs_placesLast(dir, images, i, num_pages, F, now) ==
    IF i >= Len(images) THEN dir
    ELSE MagnetPdfs_placesLast(
             WrittenPdf(dir, OrderName(now, (i \div 2) + 1),
                 TemplateWithImages("format", num_pages,
                     IF i + 1 < Len(images)
                     THEN PairOnPage(images[i + 1], images[i + 2])
                     ELSE <<Transformed(images[i + 1], common_x, ty1,
                                        scale_factor)>>),
                 HowFails(F, "asm", (i \div 2) + 1), now),
             images, i + 2, num_pages, F, now)

RECURSIVE MagnetPdfs(_, _, _, _, _, _)
\* step [6/7]: for i in range(0, len(images), 2): a document for images i and
\* i + 1 when i + 1 < len(images), numbered (i // 2) + 1; a note otherwise
MagnetPdfs(dir, images, i, num_pages, F, now) ==
    IF i >= Len(images) THEN dir
    ELSE IF i + 1 < Len(images)
    THEN MagnetPdfs(
             WrittenPdf(dir, OrderName(now, (i \div 2) + 1),
                 TemplateWithImages("format", num_pages,
                     PairOnPage(images[i + 1], images[i + 2])),
                 HowFails(F, "asm", (i \div 2) + 1), now),
             images, i + 2, num_pages, F, now)
    ELSE MagnetPdfs(dir, images, i + 2, num_pages, F, now)

\* the images the pairing loop reports as "has no pair" (numbered from 1)
NoPairNotes(images) ==
    {i + 1 : i \in {j \in 0..(Len(images) - 1) :
                       j % 2 = 0 /\ ~(j + 1 < Len(images))}}

RECURSIVE BoatPdfs(_, _, _, _, _, _)
\* step [6b/7]: one document per generated boat image
BoatPdfs(dir, images, b, num_pages, F, now) ==
    IF b > Len(images) THEN dir
    ELSE BoatPdfs(
             WrittenPdf(dir, BoatName(now, b),
                 TemplateWithImages("boat_format", num_pages,
                     BoatOnPage(images[b])),
                 HowFails(F, "boat_asm", b), now),
             images, b + 1, num_pages, F, now)

NoAssembly ==
    [ran |-> FALSE, images |-> <<>>, boats |-> <<>>, noPair |-> {},
     failed |-> {}]

\* the files and folders process_all_orders looks for: csv_path, IMAGES_DIR,
\* TEMPLATE_PDF, BOATS_DIR and BOAT_TEMPLATE_PDF
Inputs == {"csv", "images", "template", "boats", "boat_template"}
\* step [1/7]: one of csv_path, IMAGES_DIR, TEMPLATE_PDF does not exist
InputsInvalid(gone) == gone \cap {"csv", "images", "template"} # {}
\* "Boat orders will be skipped": boats_available or
\* boat_template_available is false
BoatsSkipped(gone) == gone \cap {"boats", "boat_template"} # {}
\* the failures that strike an operation the call performs with these inputs
FaultSetsWith(orders, k, gone) ==
    {F \in FaultSets(orders, k) :
        /\ InputsInvalid(gone) => F = {}
        /\ BoatsSkipped(gone) =>
              \A f \in F : /\ f.op # "boat_asm"
                           /\ f.op \in {"lookup", "render"} =>
                                 ~is_boat_order(orders[f.at])}

\* process_all_orders(csv_path): the directories afterwards, the result, and
\* what the image loops and the pairing loop reported
process_all_orders(dir, out, orders, num_pages, F, now, gone) ==
    LET magnets == GenerateImages(orders, 1, FALSE, F)
        boats == IF BoatsSkipped(gone) THEN <<>>
                 ELSE GenerateImages(orders, 1, TRUE, F)
    IN IF InputsInvalid(gone) \/ Len(orders) = 0
       THEN [cwd |-> dir, outputs |-> out, ret |-> FALSE, asm |-> NoAssembly]
       ELSE IF Len(magnets) = 0 /\ Len(boats) = 0
       THEN [cwd |-> dir, outputs |-> [magnet |-> <<>>, boat |-> <<>>],
             ret |-> FALSE, asm |-> NoAssembly]
       ELSE [cwd |-> BoatPdfs(
                         MagnetPdfs(dir, magnets, 0, num_pages, F, now),
                         boats, 1, num_pages, F, now),
             outputs |-> [magnet |-> magnets, boat |-> boats],
             ret |-> TRUE,
             asm |-> [ran |-> TRUE, images |-> magnets, boats |-> boats,
                      noPair |-> NoPairNotes(magnets),
                      failed |-> {f \in F : f.op \in {"asm", "boat_asm"}}]]

\* ---- cleanup_old_pdfs --------------------------------------------------
\* file.startswith('order_output_') or file.startswith('MASTER_ORDER_'),
\* and file.endswith('.pdf')
IsOrderPdf(f) == f.pre = "order_output"
IsMasterPdf(f) == f.pre = "MASTER_ORDER"
ToArchive(dir) == {f \in DOMAIN dir : IsOrderPdf(f) \/ IsMasterPdf(f)}

\* shutil.move of every file of S into the archive, replacing what is there;
\* of an archived file only the name and the modification time are ever read
MoveAll(dir, arch, S) ==
    [cwd |-> [g \in DOMAIN dir \ S |-> dir[g]],
     archive |-> [g \in DOMAIN arch \cup S |->
                     IF g \in S THEN dir[g].mtime ELSE arch[g]]]

\* (mtime, file_path) of a sorts after that of b
SortsAfter(arch, a, b) ==
    \/ arch[a] > arch[b]
    \/ /\ arch[a] = arch[b]
       /\ \/ a.ts > b.ts
          \/ a.ts = b.ts /\ a.tmp /\ ~b.tmp

\* a faulty retention: nothing is deleted
BeyondKept_none(arch, keep) == {}
\* archive_masters.sort(reverse=True); the files of archive_masters[10:]
BeyondKept(arch, keep) ==
    LET masters == {f \in DOMAIN arch : IsMasterPdf(f)}
    IN {f \in masters :
          Cardinality({g \in masters : SortsAfter(arch, g, f)}) >= keep}

\* cleanup_old_pdfs(): the working directory and the archive afterwards
cleanup_old_pdfs(dir, arch) ==
    IF ToArchive(dir) = {} THEN [cwd |-> dir, archive |-> arch]
    ELSE LET moved == MoveAll(dir, arch, ToArchive(dir))
             old == BeyondKept(moved.archive, KeepMasters)
         IN [cwd |-> moved.cwd,
             archive |-> [g \in DOMAIN moved.archive \ old |-> moved.archive[g]]]

\* ---- collecting the batch's documents ----------------------------------
\* int(parts[-1]) of the name without ".pdf", 0 when that is no number
extract_pdf_number(f) == IF f.tmp THEN 0 ELSE f.num

Perms(S) ==
    {q \in [1..Cardinality(S) -> S] : \A a, b \in DOMAIN q : q[a] = q[b] => a = b}

RECURSIVE InsertByNumber(_, _)
\* f put into the sorted sequence q after every element whose number is not
\* larger (list.sort is stable)
InsertByNumber(q, f) ==
    IF q = <<>> THEN <<f>>
    ELSE IF extract_pdf_number(Head(q)) <= extract_pdf_number(f)
         THEN <<Head(q)>> \o InsertByNumber(Tail(q), f)
         ELSE <<f>> \o q

RECURSIVE SortByNumber(_)
\* pdf_files.sort(key=extract_pdf_number)
\* a faulty sort: the files stay in the order of the listing
SortByNumber_listingOrder(q) == q
SortByNumber(q) ==
    IF q = <<>> THEN <<>>
    ELSE InsertByNumber(SortByNumber(SubSeq(q, 1, Len(q) - 1)), q[Len(q)])

MaxOf(S) == CHOOSE m \in S : \A x \in S : x <= m

\* the files of the most recent session among the listed order_output files,
\* in listing order
MostRecentSession(listed) ==
    LET found == SelectSeq(listed, IsOrderPdf)
        most_recent_timestamp == MaxOf({found[k].ts : k \in 1..Len(found)})
    IN IF found = <<>> THEN <<>>
       ELSE SelectSeq(found, LAMBDA f : f.ts = most_recent_timestamp)

\* pdf_files after the sort
CollectPdfs(listed) == SortByNumber(MostRecentSession(listed))

\* ---- merge_pdfs --------------------------------------------------------
\* hashlib.md5 of the file's bytes: the content without its modification
\* time; of an artifact the bytes hold the artwork, not the number of the
\* image file it was read from
Digest(c) ==
    [size |-> c.size, readable |-> c.readable, flat |-> c.flat,
     pages |-> [j \in 1..Len(c.pages) |->
                  [tpl |-> c.pages[j].tpl, no |-> c.pages[j].no,
                   arts |-> [a \in 1..Len(c.pages[j].arts) |->
                               c.pages[j].arts[a].art]]]]

\* Step 1 of merge_pdfs: the file exists, is not empty, can be read and has
\* a page
ValidPdf(dir, f) ==
    /\ Exists(dir, f)
    /\ dir[f].size # 0
    /\ dir[f].readable
    /\ PageCount(dir[f]) # 0
ValidPdfs(dir, files) == SelectSeq(files, LAMBDA f : ValidPdf(dir, f))

\* Step 2: reader.pages[0] of every valid file, in order
MasterPage(dir, f) == [source |-> f, page |-> dir[f].pages[1]]
MergedPages(dir, valid) == [k \in 1..Len(valid) |-> MasterPage(dir, valid[k])]

\* merge_tracking: master page number -> source and hash
MergeTracking(dir, valid) ==
    [k \in 1..Len(valid) |-> [source |-> valid[k], hash |-> Digest(dir[valid[k]])]]

\* a faulty duplicate check: it finds nothing
DuplicatePages_none(tracking) == {}
\* the "DUPLICATE CONTENT" entries: the master pages whose hash another
\* master page has too
DuplicatePages(tracking) ==
    {k \in DOMAIN tracking :
        \E j \in DOMAIN tracking : j # k /\ tracking[j].hash = tracking[k].hash}

MergeOutcomes == {"ok", "raise", "empty"}
NotMerged ==
    [ran |-> FALSE, ret |-> FALSE, valid |-> <<>>, tracking |-> <<>>,
     duplicates |-> {}]

\* a faulty merge: a merge that fails takes the source files with it
merge_pdfs_consumesSources(dir, files, output_path, how, now) ==
    LET valid == ValidPdfs(dir, files)
        tracking == MergeTracking(dir, valid)
        did == [ran |-> TRUE, ret |-> TRUE, valid |-> valid,
                tracking |-> tracking, duplicates |-> DuplicatePages(tracking)]
    IN IF valid = <<>>
       THEN [cwd |-> dir, m |-> [NotMerged EXCEPT !.ran = TRUE]]
       ELSE IF how = "ok"
       THEN [cwd |-> Put(dir, output_path,
                         Pdf(1, TRUE, MergedPages(dir, valid), FALSE, now)),
             m |-> did]
       ELSE [cwd |-> [f \in DOMAIN dir \ Range(valid) |-> dir[f]],
             m |-> [did EXCEPT !.ret = FALSE]]

\* merge_pdfs(pdf_files, output_path): the directory afterwards, the result
\* and what was tracked and logged
merge_pdfs(dir, files, output_path, how, now) ==
    LET valid == ValidPdfs(dir, files)
        tracking == MergeTracking(dir, valid)
        did == [ran |-> TRUE, ret |-> TRUE, valid |-> valid,
                tracking |-> tracking, duplicates |-> DuplicatePages(tracking)]
    IN IF valid = <<>>
       THEN [cwd |-> dir, m |-> [NotMerged EXCEPT !.ran = TRUE]]
       ELSE CASE how = "ok" ->
                   [cwd |-> Put(dir, output_path,
                                Pdf(1, TRUE, MergedPages(dir, valid), FALSE, now)),
                    m |-> did]
              [] how = "empty" ->
                   [cwd |-> Put(dir, output_path, Pdf(0, FALSE, <<>>, FALSE, now)),
                    m |-> [did EXCEPT !.ret = FALSE]]
              [] OTHER -> [cwd |-> dir, m |-> [did EXCEPT !.ret = FALSE]]

\* ---- order_state.py: the record of completed orders ----------------------
\* order_state.json: "none" while the file does not exist, "json" when it
\* holds what json.dump wrote, "partial" when a write was cut short; state
\* is the set of order numbers whose entry has 'completed': True (no other
\* entry is ever written)
StateFile(text, state) == [text |-> text, state |-> state]
NoStateFile == StateFile("none", {})

\* a file that is missing or that json.load rejects gives {}
load_order_state(file) == IF file.text = "json" THEN file.state ELSE {}

\* open(STATE_FILE, 'w') empties the file before json.dump writes; "open"
\* is a failure of open, "dump" one of the write that follows
SaveOutcomes == {"ok", "open", "dump"}
save_order_state(file, state, how) ==
    CASE how = "ok" -> StateFile("json", state)
      [] how = "open" -> file
      [] OTHER -> StateFile("partial", {})

mark_orders_completed(file, order_numbers, how) ==
    save_order_state(file, load_order_state(file) \cup Range(order_numbers),
                     how)

\* etsy_sales_emails.txt is a sequence of sections, each with its "Order:"
\* line; 0 stands for the "None" that a subject without an order number gives
parse_orders_from_file(sections) ==
    [k \in 1..Len(sections) |-> [order_number |-> sections[k]]]

get_all_orders_with_status(file, sections) ==
    LET orders == parse_orders_from_file(sections)
        state == load_order_state(file)
    IN [k \in 1..Len(orders) |->
           [order_number |-> orders[k].order_number,
            completed |-> orders[k].order_number \in state]]

Filter(s, S) ==
    LET f[k \in 0..Len(s)] ==
            IF k = 0 THEN <<>>
            ELSE IF s[k] \in S THEN Append(f[k - 1], s[k]) ELSE f[k - 1]
    IN f[Len(s)]
get_pending_orders(file, sections) ==
    LET all_orders == get_all_orders_with_status(file, sections)
    IN Filter(all_orders, {o \in Range(all_orders) : ~o.completed})
get_completed_orders(file, sections) ==
    LET all_orders == get_all_orders_with_status(file, sections)
    IN Filter(all_orders, {o \in Range(all_orders) : o.completed})

\* ---- pullorders.py: sale messages to sections ----------------------------
\* a sale message: its place in the mailbox and the order number of its
\* subject (0 when the subject has none)
Message(id, order_no) == [id |-> id, order_no |-> order_no]

\* "ORDER:<order_no>", or "MSG:<message id>" without an order number
processed_key(msg) ==
    IF msg.order_no # 0 THEN [kind |-> "ORDER", of |-> msg.order_no]
    ELSE [kind |-> "MSG", of |-> msg.id]

load_processed_set(file) == file
get_existing_orders_in_snippets(sections) == Range(sections)

\* keeps the first section of every order number
deduplicate_snippets_file(sections) ==
    LET f[k \in 0..Len(sections)] ==
            IF k = 0 THEN <<>>
            ELSE IF sections[k] \in Range(f[k - 1]) THEN f[k - 1]
                 ELSE Append(f[k - 1], sections[k])
    IN f[Len(sections)]

\* a pull thread that has ended, and its locals with it
Ended == [pc |-> "done", content |-> <<>>, processed |-> {},
          existing_orders |-> {}, email_ids |-> <<>>]

\* one pass of the message loop of process_recent_etsy_sales_stop_on_processed
\* for a thread with the locals t: stop at a processed key, else write the
\* section unless the order is in existing_orders, and record the key
HandleMessage(t, sections, keys) ==
    LET msg == Head(t.email_ids)
        key == processed_key(msg)
        known == msg.order_no # 0 /\ msg.order_no \in t.existing_orders
    IN IF key \in t.processed
       THEN [t |-> Ended, snippets |-> sections, processed_file |-> keys]
       ELSE [t |-> IF Tail(t.email_ids) = <<>> THEN Ended
                   ELSE [t EXCEPT
                           !.existing_orders =
                               IF known \/ msg.order_no = 0 THEN @
                               ELSE @ \cup {msg.order_no},
                           !.processed = @ \cup {key},
                           !.email_ids = Tail(@)],
             snippets |-> IF known THEN sections
                          ELSE Append(sections, msg.order_no),
             processed_file |-> keys \cup {key}]

\* ---- the worker thread and the request that starts it -------------------
Entry(ev, f, n) == [ev |-> ev, f |-> f, n |-> n]

\* the order lists of at most n rows; the program treats the magnet
\* characters alike, so the first magnet of a list is taken to be "mA"
OrderLists(n) ==
    {o \in UNION {[1..k -> OrderKinds] : k \in 1..n} :
        \A i \in 1..Len(o) :
            o[i] = "mB" => \E j \in 1..(i - 1) : o[j] = "mA"}
NoFlatten == [path |-> NoName, before |-> Pdf(0, FALSE, <<>>, FALSE, 0),
              existed |-> FALSE, ret |-> FALSE]

\* the state when the window has been built: no batch has run, the working
\* directory and the archive hold no document
\* a call of a rendering function and what it gave
Call(op, name, image_path, radius, result) ==
    [op |-> op, name |-> name, image_path |-> image_path, radius |-> radius,
     result |-> result]
NoRender == Call("none", <<>>, "", 0, Drawn("no", NoFile))

\* a pull thread that has not run: its position and its locals
IdlePull == [pc |-> "idle", content |-> <<>>, processed |-> {},
             existing_orders |-> {}, email_ids |-> <<>>]

Started(templatePages, requests, faults, calls, inputs) ==
    /\ tplPages \in templatePages
    /\ cwd = EmptyDir
    /\ archive = EmptyDir
    /\ outputs = [magnet |-> <<>>, boat |-> <<>>]
    /\ clock = 0
    /\ processing = FALSE
    /\ csv = <<>>
    /\ pc = "idle"
    /\ success = FALSE
    /\ listing = <<>>
    /\ pdf_files = <<>>
    /\ idx = 0
    /\ pre_flatten_status = EmptyDir
    /\ flattened = <<>>
    /\ failed_flattening = <<>>
    /\ post_checked = {}
    /\ master = NoName
    /\ merged = NotMerged
    /\ log = {}
    /\ stages = <<>>
    /\ lastFlatten = NoFlatten
    /\ asmLog = NoAssembly
    /\ verified = {}
    /\ finished = {}
    /\ requestsLeft = requests
    /\ faultsLeft = faults
    /\ rendered \in calls
    /\ missing \in inputs
    /\ selected_orders = <<>>
    /\ order_state = NoStateFile
    /\ snippets = <<>>
    /\ processed_file = {}
    /\ inbox = <<>>
    /\ pulls = [t \in 1..MaxPulls |-> IdlePull]
    /\ workers = <<>>

Init == Started({1, MaxTemplatePages}, MaxRequests, MaxFaults, {NoRender}, {{}})

fsVars == <<cwd, archive, outputs>>
runVars == <<success, listing, pdf_files, idx, pre_flatten_status, flattened,
             failed_flattening, post_checked, master, merged, lastFlatten,
             asmLog>>
histVars == <<verified, finished>>
budgetVars == <<requestsLeft, faultsLeft>>

\* the order numbers of the batch with time stamp ts: request k of the text
\* box comes from an order of its own
OrderNumber(ts, k) == ts * (MaxRequests + 1) + k
OrdersOf(ts, orders) == [k \in 1..Len(orders) |-> OrderNumber(ts, k)]

\* process_orders(): the orders of the text box are written to the csv file
\* and the worker thread is started; batches are started one at a time.
\* The orders the rows came from are the selected ones (begin_selected_orders
\* filled the text box from them)
process_orders(orders) ==
    /\ pc = "idle"
    /\ ~processing
    /\ Len(orders) <= requestsLeft
    /\ csv' = orders
    /\ selected_orders' = OrdersOf(clock + 1, orders)
    /\ pc' = "start"
    /\ requestsLeft' = requestsLeft - Len(orders)
    /\ UNCHANGED <<order_state, pullVars, workers, rendered, missing, tplPages, clock, processing, log, stages, faultsLeft>>
    /\ UNCHANGED <<fsVars, runVars, histVars>>

\* process_orders_thread, up to the call of cleanup_old_pdfs
ThreadBegin ==
    /\ pc = "start"
    /\ processing' = TRUE
    /\ log' = {}
    /\ clock' = clock + 1
    /\ pc' = "cleanup"
    /\ UNCHANGED <<bookVars, rendered, missing, tplPages, csv, fsVars, runVars, stages, histVars, budgetVars>>

\* self.cleanup_old_pdfs()
Archive ==
    /\ pc = "cleanup"
    /\ LET r == cleanup_old_pdfs(cwd, archive)
       IN /\ cwd' = r.cwd
          /\ archive' = r.archive
    /\ stages' = Append(stages, "Archive")
    /\ pc' = "generate"
    /\ UNCHANGED <<bookVars, rendered, missing, tplPages, outputs, clock, processing, csv, log, runVars,
                   verified, finished, budgetVars>>

\* the outcomes of a save when k more operations may fail
SaveOutcomesWith(k) == IF k > 0 THEN SaveOutcomes ELSE {"ok"}

\* "Mark selected orders as completed": if self.selected_orders, all of them
\* are marked and the selection is cleared
MarkSelected(how) ==
    IF selected_orders # <<>>
    THEN /\ order_state' = mark_orders_completed(order_state,
                                                  selected_orders, how)
         /\ selected_orders' = <<>>
    ELSE /\ how = "ok"
         /\ UNCHANGED stateVars

\* success = process_orders.process_all_orders(self.csv_path.get()) and,
\* if success, the marking of the selected orders; the faults of a batch are
\* those of its documents, a save of the state file that fails is followed
\* in SpecOrders
Generate ==
    /\ pc = "generate"
    /\ \E F \in FaultSetsWith(csv, faultsLeft, missing) :
          LET r == process_all_orders(cwd, outputs, csv, tplPages, F, clock,
                                      missing)
          IN /\ cwd' = r.cwd
             /\ outputs' = r.outputs
             /\ success' = r.ret
             /\ asmLog' = r.asm
             /\ IF r.ret THEN MarkSelected("ok") ELSE UNCHANGED stateVars
             /\ faultsLeft' = faultsLeft - Cardinality(F)
             /\ pc' = IF r.ret THEN "collect" ELSE "finally"
             /\ log' = log \cup {Entry("no pair", NoName, i) : i \in r.asm.noPair}
                           \cup {Entry("Image not found", NoName, f.at) :
                                    f \in {g \in F : g.op = "lookup"}}
                           \cup {Entry("ERROR creating image", NoName, f.at) :
                                    f \in {g \in F : g.op = "render"}}
                           \cup {Entry("ERROR creating PDF", NoName, f.at) :
                                    f \in {g \in F : g.op = "asm"}}
                           \cup {Entry("ERROR creating boat PDF", NoName, f.at) :
                                    f \in {g \in F : g.op = "boat_asm"}}
                           \cup (IF r.ret THEN {}
                                 ELSE {Entry("completed with errors", NoName, 0)})
    /\ stages' = Append(stages, "Generate")
    /\ UNCHANGED <<pullVars, workers, rendered, missing, tplPages, archive, clock, processing, csv, listing,
                   pdf_files, idx, pre_flatten_status, flattened,
                   failed_flattening, post_checked, master, merged, lastFlatten,
                   histVars, requestsLeft>>

\* "Find all individual order PDFs from the MOST RECENT processing session":
\* os.listdir returns the directory in any order
Collect ==
    /\ pc = "collect"
    /\ \E listed \in Perms({f \in DOMAIN cwd : IsOrderPdf(f)}) :
          /\ listing' = MostRecentSession(listed)
          /\ pdf_files' = CollectPdfs(listed)
    /\ stages' = Append(stages, "Collect")
    /\ idx' = 0
    /\ IF pdf_files' = <<>>
       THEN /\ pc' = "finally"
            /\ log' = log \cup {Entry("No order PDFs found", NoName, 0)}
       ELSE /\ pc' = "prevalidate"
            /\ log' = log
    /\ UNCHANGED <<bookVars, rendered, missing, tplPages, fsVars, clock, processing, csv, success,
                   pre_flatten_status, flattened, failed_flattening,
                   post_checked, master, merged, lastFlatten, asmLog, histVars,
                   budgetVars>>

\* STEP 1 for one file: pre_flatten_status[pdf_file]
PreStatus(dir, f) ==
    IF ~Exists(dir, f) THEN [status |-> "not_found", pages |-> 0, size |-> 0]
    ELSE IF ~dir[f].readable THEN [status |-> "error", pages |-> 0, size |-> 0]
    ELSE [status |-> IF PageCount(dir[f]) = 1 THEN "ok" ELSE "warning",
          pages |-> PageCount(dir[f]), size |-> dir[f].size]

\* the per-page loops run over pdf_files in order; the loop that has handled
\* the last file hands over to the next step
NextFile == pdf_files[idx + 1]
\* a faulty loop: it hands over after its first file
AfterLoop_firstFileOnly(next) == pc' = next /\ idx' = 0
AfterLoop(next) ==
    IF idx + 1 = Len(pdf_files)
    THEN pc' = next /\ idx' = 0
    ELSE pc' = pc /\ idx' = idx + 1
Entered(stage) == IF idx = 0 THEN Append(stages, stage) ELSE stages

\* STEP 1: Pre-Flatten Verification, one file
PreValidate ==
    /\ pc = "prevalidate"
    /\ pre_flatten_status' = Put(pre_flatten_status, NextFile, PreStatus(cwd, NextFile))
    /\ stages' = Entered("PreValidate")
    /\ AfterLoop("flatten")
    /\ UNCHANGED <<bookVars, rendered, missing, tplPages, fsVars, clock, processing, csv, success, listing,
                   pdf_files, flattened, failed_flattening, post_checked, master,
                   merged, log, lastFlatten, asmLog, histVars, budgetVars>>

\* STEP 2: Flattening Individual PDFs, one file
FlattenEach ==
    /\ pc = "flatten"
    /\ stages' = Entered("FlattenEach")
    /\ AfterLoop("postvalidate")
    /\ IF Exists(cwd, NextFile)
       THEN \E outcome \in FlattenOutcomes :
              /\ outcome # "ok" => faultsLeft > 0 /\ ValidPdf(cwd, NextFile)
              /\ LET r == FlattenPdfInPlace(cwd, NextFile, outcome, clock)
                 IN /\ cwd' = r.dir
                    /\ lastFlatten' = [path |-> NextFile, before |-> cwd[NextFile],
                                       existed |-> TRUE, ret |-> r.ret]
                    /\ flattened' = IF r.ret THEN Append(flattened, NextFile)
                                    ELSE flattened
                    /\ failed_flattening' =
                          IF r.ret THEN failed_flattening
                          ELSE Append(failed_flattening, NextFile)
                    /\ log' = IF r.ret THEN log
                              ELSE log \cup {Entry("Failed to flatten", NextFile, 0),
                                             Entry("Will try to use non-flattened version",
                                                   NextFile, 0)}
              /\ faultsLeft' = IF outcome = "ok" THEN faultsLeft ELSE faultsLeft - 1
       ELSE UNCHANGED <<cwd, lastFlatten, flattened, failed_flattening, log,
                        faultsLeft>>
    /\ UNCHANGED <<bookVars, rendered, missing, tplPages, archive, outputs, clock, processing, csv, success,
                   listing, pdf_files, pre_flatten_status, post_checked, master,
                   merged, asmLog, histVars, requestsLeft>>

\* STEP 3: Post-Flatten Verification, one file
PostValidate ==
    /\ pc = "postvalidate"
    /\ stages' = Entered("PostValidate")
    /\ AfterLoop("merge")
    /\ post_checked' = post_checked \cup {NextFile}
    /\ log' = IF /\ Exists(cwd, NextFile)
                 /\ cwd[NextFile].readable
                 /\ Exists(pre_flatten_status, NextFile)
                 /\ PageCount(cwd[NextFile]) # pre_flatten_status[NextFile].pages
              THEN log \cup {Entry("Page count changed", NextFile,
                                   PageCount(cwd[NextFile]))}
              ELSE log
    /\ UNCHANGED <<bookVars, rendered, missing, tplPages, fsVars, clock, processing, csv, success, listing,
                   pdf_files, pre_flatten_status, flattened, failed_flattening,
                   master, merged, lastFlatten, asmLog, histVars, budgetVars>>

\* STEP 4: Creating Master PDF
Merge ==
    /\ pc = "merge"
    /\ stages' = Append(stages, "Merge")
    /\ master' = MasterName(clock)
    /\ \E how \in MergeOutcomes :
          /\ how # "ok" => faultsLeft > 0 /\ ValidPdfs(cwd, pdf_files) # <<>>
          /\ faultsLeft' = IF how = "ok" THEN faultsLeft ELSE faultsLeft - 1
          /\ LET r == merge_pdfs(cwd, pdf_files, MasterName(clock), how, clock)
             IN /\ cwd' = r.cwd
                /\ merged' = r.m
                /\ pc' = IF r.m.ret THEN "flattenmaster" ELSE "finally"
                /\ log' = log
                     \cup {Entry("DUPLICATE CONTENT", r.m.tracking[k].source, k) :
                              k \in r.m.duplicates}
                     \cup (IF r.m.valid # <<>> /\ r.m.duplicates = {}
                           THEN {Entry("No duplicate sources detected", NoName, 0)}
                           ELSE {})
                     \cup (IF r.m.ret THEN {}
                           ELSE {Entry("Error merging PDFs", NoName, 0)})
    /\ UNCHANGED <<bookVars, rendered, missing, tplPages, archive, outputs, clock, processing, csv, success,
                   listing, pdf_files, idx, pre_flatten_status, flattened,
                   failed_flattening, post_checked, lastFlatten, asmLog,
                   histVars, requestsLeft>>

\* STEP 5: Flattening Master PDF
FlattenMaster ==
    /\ pc = "flattenmaster"
    /\ stages' = Append(stages, "FlattenMaster")
    /\ pc' = "finalverify"
    /\ \E outcome \in FlattenOutcomes :
          /\ outcome # "ok" => faultsLeft > 0
          /\ faultsLeft' = IF outcome = "ok" THEN faultsLeft ELSE faultsLeft - 1
          /\ LET r == FlattenPdfInPlace(cwd, master, outcome, clock)
             IN /\ cwd' = r.dir
                /\ lastFlatten' = [path |-> master, before |-> cwd[master],
                                   existed |-> TRUE, ret |-> r.ret]
                /\ log' = IF r.ret THEN log
                          ELSE log \cup {Entry("Failed to flatten", master, 0),
                                         Entry("Master PDF flattening failed",
                                               master, 0)}
    /\ UNCHANGED <<bookVars, rendered, missing, tplPages, archive, outputs, clock, processing, csv, success,
                   listing, pdf_files, idx, pre_flatten_status, flattened,
                   failed_flattening, post_checked, master, merged, asmLog,
                   histVars, requestsLeft>>

\* STEP 6: Final Master PDF Verification: the master's page count against
\* len(pdf_files)
FinalCheck(dir, master_pdf_name, files) ==
    IF PageCount(dir[master_pdf_name]) = Len(files)
    THEN Entry("Page count matches perfectly", master_pdf_name,
               PageCount(dir[master_pdf_name]))
    ELSE Entry("WARNING: Expected pages", master_pdf_name, Len(files))

FinalVerify ==
    /\ pc = "finalverify"
    /\ stages' = Append(stages, "FinalVerify")
    /\ pc' = "finally"
    /\ log' = log \cup {FinalCheck(cwd, master, pdf_files)}
    /\ verified' = verified \cup {clock}
    /\ UNCHANGED <<bookVars, rendered, missing, tplPages, fsVars, clock, processing, csv, runVars,
                   finished, budgetVars>>

\* finally: self.processing = False; the thread ends and its locals with it
ThreadFinally ==
    /\ pc = "finally"
    /\ processing' = FALSE
    /\ pc' = "idle"
    /\ finished' = finished \cup {clock}
    /\ success' = FALSE
    /\ listing' = <<>>
    /\ pdf_files' = <<>>
    /\ idx' = 0
    /\ pre_flatten_status' = EmptyDir
    /\ flattened' = <<>>
    /\ failed_flattening' = <<>>
    /\ post_checked' = {}
    /\ master' = NoName
    /\ merged' = NotMerged
    /\ lastFlatten' = NoFlatten
    /\ asmLog' = NoAssembly
    /\ stages' = <<>>
    /\ UNCHANGED <<bookVars, rendered, missing, tplPages, fsVars, clock, csv, log, verified, budgetVars>>

Worker ==
    \/ ThreadBegin
    \/ Archive
    \/ Generate
    \/ Collect
    \/ PreValidate
    \/ FlattenEach
    \/ PostValidate
    \/ Merge
    \/ FlattenMaster
    \/ FinalVerify
    \/ ThreadFinally

Next ==
    \/ \E orders \in OrderLists(MaxRequests) : process_orders(orders)
    \/ Worker

Spec == Init /\ [][Next]_vars

\* ---- many batches, for the retention of archived master documents -------
\* batches of one pair or of one boat, no operation fails
RetentionLists == {<<"mA", "mB">>, <<"boat">>}
InitRetention == Started({1}, 2 * MaxBatches, 0, {NoRender}, {{}})
NextRetention ==
    \/ \E orders \in RetentionLists :
          clock < MaxBatches /\ process_orders(orders)
    \/ Worker
SpecRetention == InitRetention /\ [][NextRetention]_vars

\* ---- batches with an input that does not exist --------------------------
MissingInputs == {{}} \cup {{x} : x \in Inputs}
InitInputs ==
    Started({1}, MaxRequests - 1, MaxFaults, {NoRender}, MissingInputs)
SpecInputs == InitInputs /\ [][Next]_vars

\* ---- the temporary files of an assembly ---------------------------------
\* the step of create_pdf_with_images / create_boat_pdf that goes wrong: the
\* validation of template and images, png_to_pdf of the first or second
\* image, the check of the temporary documents, reading and merging the
\* pages, the check of the written output, os.remove of the first or second
\* temporary document
PairSteps ==
    {"validate", "convert1", "convert2", "verify_temp", "merge",
     "verify_output", "remove1", "remove2"}
BoatSteps ==
    {"validate", "convert1", "verify_temp", "merge", "verify_output",
     "remove1"}
TempFiles == {"temp_1.pdf", "temp_2.pdf", "temp_boat.pdf"}
\* what a call leaves: whether it raised, the files of the temp folder and
\* whether output_pdf was written
Assembled(raised, temp, written) ==
    [raised |-> raised, temp |-> temp, written |-> written]

\* create_pdf_with_images(input_pdf, image1, image2, output_pdf) with the
\* temp folder holding the files temp and the step fault going wrong
create_pdf_with_images(temp, fault) ==
    LET cleared == temp \ {"temp_1.pdf", "temp_2.pdf"}
        both == cleared \cup {"temp_1.pdf", "temp_2.pdf"}
    IN CASE fault = "validate" -> Assembled("yes", temp, FALSE)
         [] fault = "convert1" -> Assembled("yes", cleared, FALSE)
         [] fault = "convert2" ->
                Assembled("yes", cleared \cup {"temp_1.pdf"}, FALSE)
         [] fault \in {"verify_temp", "merge"} -> Assembled("yes", both, FALSE)
         [] fault = "verify_output" -> Assembled("yes", both, TRUE)
         [] fault = "remove1" -> Assembled("no", both, TRUE)
         [] fault = "remove2" ->
                Assembled("no", cleared \cup {"temp_2.pdf"}, TRUE)
         [] OTHER -> Assembled("no", cleared, TRUE)

\* create_boat_pdf(input_pdf, boat_image, output_pdf)
create_boat_pdf(temp, fault) ==
    LET cleared == temp \ {"temp_boat.pdf"}
        made == cleared \cup {"temp_boat.pdf"}
    IN CASE fault = "validate" -> Assembled("yes", temp, FALSE)
         [] fault = "convert1" -> Assembled("yes", cleared, FALSE)
         [] fault \in {"verify_temp", "merge"} -> Assembled("yes", made, FALSE)
         [] fault = "verify_output" -> Assembled("yes", made, TRUE)
         [] fault = "remove1" -> Assembled("no", made, TRUE)
         [] OTHER -> Assembled("no", cleared, TRUE)

\* ---- the rendering functions on their own --------------------------------
\* display names: the first characters of a repeated sample, of every length
\* up to MaxNameLen; one sample is blank throughout, one has blanks inside
NameSamples ==
    {<<"J", "o", "h", "n", "n", "y">>, <<" ">>,
     <<"M", "a", "r", "i", "a", " ", "W", "u", " ">>}
NameOf(sample, len) ==
    [i \in 1..len |-> sample[((i - 1) % Len(sample)) + 1]]
Names == {NameOf(sample, len) : sample \in NameSamples, len \in 0..MaxNameLen}
PairedArtworks == {"mA", "dog-"}
Radii == {-600, 0, 6, 600}
pipelineVars ==
    <<tplPages, cwd, archive, outputs, clock, processing, csv, pc, success,
      listing, pdf_files, idx, pre_flatten_status, flattened,
      failed_flattening, post_checked, master, merged, log, stages,
      lastFlatten, asmLog, verified, finished, requestsLeft, faultsLeft,
      missing, bookVars>>

\* the calls a behaviour may start with, their results still to come
Pending == Drawn("pending", NoFile)
Calls ==
    {Call("create_personalized_image", name, image_path, 600, Pending) :
        name \in Names, image_path \in PairedArtworks}
    \cup {Call(op, name, "boat", 0, Pending) :
        op \in {"create_personalized_boat_image",
                "calculate_boat_text_settings"}, name \in Names}
    \cup {Call("draw_text_on_arc", text, "mA", radius, Pending) :
        text \in Names, radius \in Radii}
    \cup {Call("draw_boat_text_on_arc", text, "boat", radius, Pending) :
        text \in Names, radius \in Radii}
\* the assembly calls: the temp folder before, the step that goes wrong
AssemblyCall(op, temp, fault) ==
    [op |-> op, name |-> <<>>, image_path |-> "", radius |-> 0,
     temp |-> temp, fault |-> fault, result |-> Pending]
AssemblyCalls ==
    {AssemblyCall("create_pdf_with_images", temp, fault) :
        temp \in SUBSET TempFiles, fault \in PairSteps \cup {"none"}}
    \cup {AssemblyCall("create_boat_pdf", temp, fault) :
        temp \in SUBSET TempFiles, fault \in BoatSteps \cup {"none"}}
Called(op) == rendered.op = op /\ rendered.result = Pending
Returns(result) ==
    /\ rendered' = [rendered EXCEPT !.result = result]
    /\ UNCHANGED pipelineVars

PersonalizeImage ==
    /\ Called("create_personalized_image")
    /\ Returns(create_personalized_image(rendered.name, rendered.image_path))
PersonalizeBoatImage ==
    /\ Called("create_personalized_boat_image")
    /\ Returns(create_personalized_boat_image(rendered.name,
                                              rendered.image_path))
BoatTextSettings ==
    /\ Called("calculate_boat_text_settings")
    /\ Returns(Personalized("no", NoFile,
                            calculate_boat_text_settings(rendered.name)))
DrawTextOnArc ==
    /\ Called("draw_text_on_arc")
    /\ Returns(draw_text_on_arc(Opened(rendered.image_path), rendered.name,
                   <<Fifths(780), Fifths(690)>>, Fifths(rendered.radius),
                   100, 270, 6))
CreatePdfWithImages ==
    /\ Called("create_pdf_with_images")
    /\ Returns(create_pdf_with_images(rendered.temp, rendered.fault))
CreateBoatPdf ==
    /\ Called("create_boat_pdf")
    /\ Returns(create_boat_pdf(rendered.temp, rendered.fault))
DrawBoatTextOnArc ==
    /\ Called("draw_boat_text_on_arc")
    /\ Returns(draw_boat_text_on_arc(Opened(rendered.image_path),
                   rendered.name,
                   <<Fifths(BOAT_TEXT_CENTER_X), Fifths(BOAT_TEXT_CENTER_Y)>>,
                   Fifths(rendered.radius), BOAT_TEXT_BASE_FONT_SIZE,
                   BOAT_TEXT_ANGLE, BOAT_TEXT_KERNING))

InitRender == Started({1}, 0, 0, Calls \cup AssemblyCalls, {{}})
NextRender ==
    \/ PersonalizeImage
    \/ PersonalizeBoatImage
    \/ BoatTextSettings
    \/ DrawTextOnArc
    \/ DrawBoatTextOnArc
    \/ CreatePdfWithImages
    \/ CreateBoatPdf
SpecRender == InitRender /\ [][NextRender]_vars

\* ---- the bookkeeping of orders: pulls, selection, completion -------------
\* what the bookkeeping leaves alone, the budget of failures apart
batchVars ==
    <<tplPages, cwd, archive, outputs, clock, processing, csv, pc, success,
      listing, pdf_files, idx, pre_flatten_status, flattened,
      failed_flattening, post_checked, master, merged, log, stages,
      lastFlatten, asmLog, verified, finished, requestsLeft, missing,
      rendered>>

\* a sale message reaches the mailbox
Arrive(order_no) ==
    /\ Len(inbox) < MaxMessages
    /\ inbox' = Append(inbox, Message(Len(inbox) + 1, order_no))
    /\ UNCHANGED <<batchVars, faultsLeft, stateVars, snippets, processed_file,
                   pulls, workers>>

StartPull(t) ==
    /\ pulls' = [pulls EXCEPT ![t] = [IdlePull EXCEPT !.pc = "dedupe"]]
    /\ UNCHANGED <<batchVars, faultsLeft, stateVars, snippets, processed_file,
                   inbox, workers>>

\* startup_load_orders(): with no order in the file, startup_pull_thread is
\* started
startup_load_orders ==
    /\ pulls[1].pc = "idle"
    /\ get_all_orders_with_status(order_state, snippets) = <<>>
    /\ StartPull(1)

\* pull_new_orders(): pull_new_orders_thread is started unless a batch is
\* being processed
pull_new_orders(t) ==
    /\ ~processing
    /\ pulls[t].pc \in {"idle", "done"}
    /\ StartPull(t)

\* deduplicate_snippets_file(), if the file exists: content = p.read_text()
DedupeRead(t) ==
    /\ pulls[t].pc = "dedupe"
    /\ pulls' = [pulls EXCEPT ![t] =
                    IF snippets = <<>> THEN [@ EXCEPT !.pc = "load"]
                    ELSE [@ EXCEPT !.pc = "rewrite", !.content = snippets]]
    /\ UNCHANGED <<batchVars, faultsLeft, stateVars, snippets, processed_file,
                   inbox, workers>>

\* deduplicate_snippets_file(): the file is rebuilt from the content read
DedupeWrite(t) ==
    /\ pulls[t].pc = "rewrite"
    /\ snippets' = deduplicate_snippets_file(pulls[t].content)
    /\ pulls' = [pulls EXCEPT ![t] = [@ EXCEPT !.pc = "load", !.content = <<>>]]
    /\ UNCHANGED <<batchVars, faultsLeft, stateVars, processed_file, inbox,
                   workers>>

\* processed = load_processed_set(); existing_orders = get_existing_orders_
\* in_snippets(); mail.search(...); email_ids = list(reversed(email_ids))
LoadSets(t) ==
    /\ pulls[t].pc = "load"
    /\ pulls' = [pulls EXCEPT ![t] =
                    IF inbox = <<>> THEN Ended
                    ELSE [@ EXCEPT
                            !.processed = load_processed_set(processed_file),
                            !.existing_orders =
                                get_existing_orders_in_snippets(snippets),
                            !.email_ids = Reversed(inbox),
                            !.pc = "loop"]]
    /\ UNCHANGED <<batchVars, faultsLeft, stateVars, snippets, processed_file,
                   inbox, workers>>

\* for email_id in email_ids: one pass
PullMessage(t) ==
    /\ pulls[t].pc = "loop"
    /\ LET r == HandleMessage(pulls[t], snippets, processed_file)
       IN /\ pulls' = [pulls EXCEPT ![t] = r.t]
          /\ snippets' = r.snippets
          /\ processed_file' = r.processed_file
    /\ UNCHANGED <<batchVars, faultsLeft, stateVars, inbox, workers>>

\* the orders the list shows, one row per order number
Shown == deduplicate_snippets_file(snippets)

\* on_order_checkbox_changed / select_all_orders / deselect_all_orders: the
\* user checks the orders S of the list
SelectOrders(S) ==
    /\ S \subseteq Range(Shown)
    /\ selected_orders' = Filter(Shown, S)
    /\ selected_orders' # selected_orders
    /\ UNCHANGED <<batchVars, faultsLeft, order_state, pullVars, workers>>

\* a batch that returned success marks the selected orders
MarkOrders ==
    /\ selected_orders # <<>>
    /\ \E how \in SaveOutcomesWith(faultsLeft) :
          /\ MarkSelected(how)
          /\ faultsLeft' = faultsLeft - (IF how = "ok" THEN 0 ELSE 1)
    /\ UNCHANGED <<batchVars, pullVars, workers>>

\* process_recent_etsy_sales_stop_on_processed() in the pull thread t
PullThread(t) ==
    \/ DedupeRead(t)
    \/ DedupeWrite(t)
    \/ LoadSets(t)
    \/ PullMessage(t)

\* the pulls of orders: the startup pull and the pulls the user asks for,
\* each in a thread of its own
InitPulls == Started({1}, 0, 0, {NoRender}, {{}})
NextPulls ==
    \/ \E order_no \in 0..MaxOrders : Arrive(order_no)
    \/ startup_load_orders
    \/ \E t \in 1..MaxPulls : pull_new_orders(t) \/ PullThread(t)
SpecPulls == InitPulls /\ [][NextPulls]_vars

\* the completion of orders: orders are pulled by one thread at a time,
\* selected, and marked by batches that return success
InitOrders == Started({1}, 0, MaxFaults, {NoRender}, {{}})
NextOrders ==
    \/ \E order_no \in 0..MaxOrders : Arrive(order_no)
    \/ startup_load_orders
    \/ pull_new_orders(1)
    \/ PullThread(1)
    \/ \E S \in SUBSET (0..MaxOrders) : SelectOrders(S)
    \/ MarkOrders
SpecOrders == InitOrders /\ [][NextOrders]_vars

\* ---- process requests and the worker threads they start -----------------
\* what a worker thread's steps leave alone in this specification
exceptFlag ==
    <<tplPages, cwd, archive, outputs, clock, csv, pc, success, listing,
      pdf_files, idx, pre_flatten_status, flattened, failed_flattening,
      post_checked, master, merged, log, stages, lastFlatten, asmLog,
      verified, finished, requestsLeft, faultsLeft, missing, rendered,
      stateVars, pullVars>>

\* process_orders(): "if self.processing: ... return", else the thread is
\* started; the request handler leaves self.processing as it is
StartWorker ==
    /\ ~processing
    /\ Len(workers) < MaxWorkers
    /\ workers' = Append(workers, "start")
    /\ UNCHANGED <<exceptFlag, processing>>

Moves(w, from, to) ==
    /\ w \in 1..Len(workers)
    /\ workers[w] = from
    /\ workers' = [workers EXCEPT ![w] = to]

\* process_orders_thread: self.processing = True
WorkerSetsFlag(w) ==
    /\ Moves(w, "start", "cleanup")
    /\ processing' = TRUE
    /\ UNCHANGED exceptFlag

\* process_orders_thread: self.cleanup_old_pdfs() on the working directory
\* and the archive
WorkerArchives(w) ==
    /\ Moves(w, "cleanup", "generate")
    /\ UNCHANGED <<exceptFlag, processing>>

\* process_orders_thread: process_all_orders and the steps on its documents
WorkerGenerates(w) ==
    /\ Moves(w, "generate", "finally")
    /\ UNCHANGED <<exceptFlag, processing>>

\* process_orders_thread: finally: self.processing = False
WorkerFinally(w) ==
    /\ Moves(w, "finally", "ended")
    /\ processing' = FALSE
    /\ UNCHANGED exceptFlag

InitWorkers == Started({1}, 0, 0, {NoRender}, {{}})
NextWorkers ==
    \/ StartWorker
    \/ \E w \in 1..MaxWorkers :
          \/ WorkerSetsFlag(w)
          \/ WorkerArchives(w)
          \/ WorkerGenerates(w)
          \/ WorkerFinally(w)
SpecWorkers == InitWorkers /\ [][NextWorkers]_vars

\* ======================================================================
\* Properties
\* ======================================================================
IsPrefix(s, t) == Len(s) <= Len(t) /\ \A i \in 1..Len(s) : s[i] = t[i]
Reached(stage) == stage \in Range(stages)
Pipeline ==
    <<"Collect", "PreValidate", "FlattenEach", "PostValidate", "Merge",
      "FlattenMaster", "FinalVerify">>
\* the place of a stage in a list of stages, 0 when it is not in it
Place(list, stage) ==
    IF stage \in Range(list)
    THEN CHOOSE k \in 1..Len(list) : list[k] = stage ELSE 0

\* each per-page stage has handled every collected page before the next
\* stage is entered
LoopsComplete ==
    /\ Reached("FlattenEach") => DOMAIN pre_flatten_status = Range(pdf_files)
    /\ Reached("PostValidate") =>
          Range(flattened) \cup Range(failed_flattening) = Range(pdf_files)
    /\ Reached("Merge") => post_checked = Range(pdf_files)
    /\ Reached("FlattenMaster") => merged.ran /\ merged.ret
    /\ Reached("FinalVerify") => lastFlatten.path = master
\* what the archive holds was moved there after the run of its batch ended,
\* hence after that batch's FinalVerify
ArchivedAfterItsRun ==
    \A f \in DOMAIN archive : f.ts \in finished /\ f.ts < clock

SourceNumbers(c) == [k \in 1..Len(c.pages) |-> c.pages[k].source.num]
Ascending(q) == \A i, j \in 1..Len(q) : i < j => q[i] < q[j]

\* C2: the pages of the master document are in strictly ascending order of
\* the sequence numbers of the batch's documents they come from, whatever
\* order the directory listing returned the files in
C2_MasterAscending ==
    /\ Reached("PreValidate") =>
          Ascending([k \in 1..Len(pdf_files) |-> pdf_files[k].num])
    /\ Exists(cwd, master) /\ cwd[master].readable =>
          /\ Ascending(SourceNumbers(cwd[master]))
          /\ \A k \in 1..Len(cwd[master].pages) :
                cwd[master].pages[k].source.ts = clock

\* the listing returned document 2 before document 1, the master has both
C2_Witness ==
    /\ Len(listing) = 2
    /\ listing[1].num > listing[2].num
    /\ Exists(cwd, master)
    /\ SourceNumbers(cwd[master]) = <<1, 2>>

\* the pages of document c that come from file f
PagesFrom(c, f) == {k \in 1..Len(c.pages) : c.pages[k].source = f}
\* the per-order documents of the running batch in the working directory
BatchDocuments ==
    {f \in DOMAIN cwd :
        f.ts = clock /\ ~f.tmp /\ f.pre \in {"order_output", "boat_output"}}

\* C3 (as stated): once FinalVerify has run, the master's page count equals
\* the number of collected pages that passed the validation (exists,
\* non-empty, readable, has a page), and FinalVerify compared the master's
\* page count against exactly that number
C3_AsStated ==
    Reached("FinalVerify") =>
        /\ PageCount(cwd[master]) = Len(ValidPdfs(cwd, pdf_files))
        /\ FinalCheck(cwd, master, pdf_files) \in log
        /\ FinalCheck(cwd, master, pdf_files)
              = FinalCheck(cwd, master, ValidPdfs(cwd, pdf_files))

\* C4 (as stated): after a successful merge every valid per-pair document
\* and every valid single-slot document of the batch has exactly one page in
\* the master, and no page of the master is from an earlier batch
C4_AsStated ==
    pc = "finally" /\ merged.ret =>
        /\ \A f \in BatchDocuments :
              ValidPdf(cwd, f) => Cardinality(PagesFrom(cwd[master], f)) = 1
        /\ \A k \in 1..Len(cwd[master].pages) :
              cwd[master].pages[k].source.ts = clock

\* C5: when flattening a per-order page fails, the original is still at its
\* path unchanged, a warning is recorded, the other pages are still
\* flattened and the batch goes on to the merge, which takes the
\* unflattened page into the master
C5_FlattenFailureKeepsOriginal ==
    /\ IsOrderPdf(lastFlatten.path) /\ ~lastFlatten.ret =>
          /\ Exists(cwd, lastFlatten.path)
          /\ cwd[lastFlatten.path] = lastFlatten.before
    /\ \A f \in Range(failed_flattening) :
          /\ Exists(cwd, f) /\ ~cwd[f].flat
          /\ Entry("Failed to flatten", f, 0) \in log
          /\ Entry("Will try to use non-flattened version", f, 0) \in log
          /\ pc = "finally" => Reached("Merge")
          /\ merged.ran /\ ValidPdf(cwd, f) => f \in Range(merged.valid)
          /\ merged.ret /\ ValidPdf(cwd, f) =>
                \E k \in PagesFrom(cwd[master], f) :
                    /\ PagesFrom(cwd[master], f) = {k}
                    /\ cwd[master].pages[k].page = cwd[f].pages[1]
    /\ Reached("PostValidate") =>
          /\ Range(flattened) \cup Range(failed_flattening) = Range(pdf_files)
          /\ \A g \in Range(flattened) : cwd[g].flat

\* flattening page 1 failed, page 2 was flattened, the master has both
C5_Witness ==
    /\ pc = "finally"
    /\ failed_flattening = <<OrderName(clock, 1)>>
    /\ ValidPdf(cwd, OrderName(clock, 1))
    /\ flattened = <<OrderName(clock, 2)>>
    /\ merged.ret
    /\ PageCount(cwd[master]) = 2

NoTemporaryFile(dir) == \A f \in DOMAIN dir : ~f.tmp

\* C6: flatten_pdf_in_place never changes the page count: when it returned
\* True the file is the flattened document with the pages it had, when it
\* returned False the file is still the original, and no temporary file
\* remains; the same is true of a further call on any file the run leaves
\* in the working directory, flattened already or not, whatever the
\* rendering does
C6_FlattenInPlace ==
    /\ NoTemporaryFile(cwd)
    /\ lastFlatten.path # NoName =>
          /\ Exists(cwd, lastFlatten.path)
          /\ lastFlatten.ret =>
                /\ cwd[lastFlatten.path].flat
                /\ cwd[lastFlatten.path].pages = lastFlatten.before.pages
                /\ ValidPdf(cwd, lastFlatten.path)
          /\ ~lastFlatten.ret => cwd[lastFlatten.path] = lastFlatten.before
    /\ pc = "finally" =>
          \A f \in DOMAIN cwd : \A outcome \in FlattenOutcomes :
              LET r == FlattenPdfInPlace(cwd, f, outcome, clock + 1)
              IN /\ r.ret => /\ PageCount(r.dir[f]) = PageCount(cwd[f])
                             /\ NoTemporaryFile(r.dir)
                             /\ outcome = "ok"
                 /\ ~r.ret => r.dir = cwd

\* one page was flattened, then the flattening of a valid page failed
C6_Witness ==
    /\ flattened # <<>>
    /\ lastFlatten.path # NoName
    /\ ~lastFlatten.ret
    /\ ValidPdf(cwd, lastFlatten.path)
    /\ \E f \in DOMAIN cwd : cwd[f].flat

\* C7: master pages merged from sources of the same digest are flagged as
\* duplicate content, each by its page number, and the merge goes on: when
\* no operation has failed the master is written and merge_pdfs returns True;
\* when all digests differ nothing is flagged
C7_DuplicateDigests ==
    merged.ran /\ merged.valid # <<>> =>
        /\ \A j, k \in DOMAIN merged.tracking :
              j # k /\ merged.tracking[j].hash = merged.tracking[k].hash =>
                  /\ k \in merged.duplicates
                  /\ Entry("DUPLICATE CONTENT", merged.tracking[k].source, k)
                        \in log
        /\ (\A j, k \in DOMAIN merged.tracking :
               j # k => merged.tracking[j].hash # merged.tracking[k].hash) =>
              /\ merged.duplicates = {}
              /\ \A e \in log : e.ev # "DUPLICATE CONTENT"
        /\ merged.duplicates # {} /\ faultsLeft = MaxFaults =>
              /\ merged.ret
              /\ Exists(cwd, master)
              /\ PageCount(cwd[master]) = Len(merged.valid)

\* two pages of the same content were merged and flagged, the master exists
C7_Witness ==
    /\ pc = "finally"
    /\ merged.ret
    /\ merged.duplicates = {1, 2}
    /\ Exists(cwd, master)
    /\ PageCount(cwd[master]) = 2

ArchivedMasters == {f \in DOMAIN archive : IsMasterPdf(f)}
\* the masters of the verified batches
WrittenMasters == {MasterName(t) : t \in verified}
\* those of them an Archive stage has moved out of the working directory
MovedMasters == {f \in WrittenMasters : ~Exists(cwd, f)}
\* the n most recent documents of S
Newest(S, n) == {f \in S : Cardinality({g \in S : g.ts > f.ts}) < n}

C9_AsStated ==
    pc = "generate" /\ Reached("Archive") =>
        \A f \in DOMAIN cwd :
            f.pre \notin {"order_output", "boat_output", "MASTER_ORDER"}

\* the artifacts on the pages of a document, in page order
ArtsOf(c) ==
    [j \in 1..Len(c.pages) |->
        [a \in 1..Len(c.pages[j].arts) |->
            [req |-> c.pages[j].arts[a].req, art |-> c.pages[j].arts[a].art]]]

\* C10: with n paired-style artifacts rendered, the pairing loop writes
\* documents 1 to n // 2 and no other, document p holding artifacts 2p - 1
\* and 2p on one page (unless the assembly of pair p failed, which is
\* reported); an odd last artifact is on no page and is reported; the
\* assembler returns True
C10_PairsAndOddLast ==
    asmLog.ran =>
        LET n == Len(asmLog.images)
            docs == {f \in BatchDocuments : IsOrderPdf(f)}
        IN /\ success
           /\ {f.num : f \in docs} \subseteq 1..(n \div 2)
           /\ \A p \in 1..(n \div 2) :
                 Entry("ERROR creating PDF", NoName, p) \notin log =>
                     /\ ValidPdf(cwd, OrderName(clock, p))
                     /\ \E j \in 1..PageCount(cwd[OrderName(clock, p)]) :
                           /\ ArtsOf(cwd[OrderName(clock, p)])[j]
                                 = <<asmLog.images[2 * p - 1],
                                     asmLog.images[2 * p]>>
                           /\ \A i \in 1..PageCount(cwd[OrderName(clock, p)]) :
                                 i # j =>
                                   ArtsOf(cwd[OrderName(clock, p)])[i] = <<>>
           /\ n % 2 = 1 =>
                 /\ asmLog.noPair = {n}
                 /\ Entry("no pair", NoName, n) \in log
                 /\ \A f \in docs : \A j \in 1..PageCount(cwd[f]) :
                       asmLog.images[n] \notin Range(ArtsOf(cwd[f])[j])
           /\ n % 2 = 0 =>
                 /\ asmLog.noPair = {}
                 /\ \A e \in log : e.ev # "no pair"

\* three artifacts: document 1 holds the first two, the third is reported
C10_Witness ==
    /\ pc = "finally"
    /\ asmLog.ran
    /\ Len(asmLog.images) = 3
    /\ ValidPdf(cwd, OrderName(clock, 1))
    /\ asmLog.noPair = {3}
    /\ merged.ret

\* the generated documents of the working directory that can be read
ReadableDocuments(pre) ==
    {f \in DOMAIN cwd : f.pre = pre /\ ~f.tmp /\ cwd[f].readable}
\* page j of document c carries artifacts
Carries(c, j) == c.pages[j].arts # <<>>

\* C11: in every paired document the artifacts are on the template page of
\* index num_pages // 2 only, two of them, the first at the top anchor and
\* the second at the bottom anchor with one scale; in every single-slot
\* document exactly one artifact is on that page, at the single anchor
C11_AnchorsOnTargetPage ==
    /\ \A f \in ReadableDocuments("order_output") :
          LET c == cwd[f] IN
          /\ PageCount(c) = tplPages
          /\ \A j \in 1..PageCount(c) :
                /\ Carries(c, j) <=> j - 1 = tplPages \div 2
                /\ Len(c.pages[j].arts) <= 2
                /\ Carries(c, j) =>
                      LET a == c.pages[j].arts IN
                      /\ Len(a) = 2
                      /\ <<a[1].x, a[1].y>> = <<common_x, ty1>>
                      /\ <<a[2].x, a[2].y>> = <<common_x, ty2>>
                      /\ a[1].y > a[2].y
                      /\ a[1].scale = a[2].scale
    /\ \A f \in ReadableDocuments("boat_output") :
          LET c == cwd[f] IN
          /\ PageCount(c) = tplPages
          /\ \A j \in 1..PageCount(c) :
                /\ Carries(c, j) <=> j - 1 = tplPages \div 2
                /\ Carries(c, j) =>
                      /\ Len(c.pages[j].arts) = 1
                      /\ <<c.pages[j].arts[1].x, c.pages[j].arts[1].y>>
                            = <<BOAT_PDF_X, BOAT_PDF_Y>>

\* a two-page template: a paired and a single-slot document of one batch,
\* the artifacts on the second page
C11_Witness ==
    /\ tplPages = 2
    /\ \E f \in ReadableDocuments("order_output") : Carries(cwd[f], 2)
    /\ \E f \in ReadableDocuments("boat_output") : Carries(cwd[f], 2)

\* ---- the rendering functions ------------------------------------------
Returned(op) == rendered.op = op /\ rendered.result # Pending
Blank(name) == \A i \in 1..Len(name) : name[i] = " "
CreateOps == {"create_personalized_image", "create_personalized_boat_image"}
DrawOps == {"draw_text_on_arc", "draw_boat_text_on_arc"}

\* C12: a name that is empty or all blanks gives, in both styles, a file
\* that is the artwork file itself, with no glyph on it
C12_BlankNameCopies ==
    \A op \in CreateOps :
        Returned(op) /\ Blank(rendered.name) =>
            /\ rendered.result.raised = "no"
            /\ rendered.result.out = SourceImage(rendered.image_path)
            /\ rendered.result.out.glyphs = <<>>

\* the paired style called with a name of three blanks
C12_Witness ==
    /\ Returned("create_personalized_image")
    /\ Len(rendered.name) = 3
    /\ Blank(rendered.name)
    /\ rendered.result.out.bytes = "source"

\* the settings of the single-slot style without scaling
BaseSettings ==
    [font_size |-> BOAT_TEXT_BASE_FONT_SIZE, radius |-> BOAT_TEXT_RADIUS,
     center |-> <<BOAT_TEXT_CENTER_X, BOAT_TEXT_CENTER_Y>>]

\* C13: a name of at most BOAT_TEXT_REFERENCE_LENGTH characters gets the
\* base font size, radius and centre
C13_AsStated ==
    Returned("calculate_boat_text_settings")
        /\ Len(rendered.name) <= BOAT_TEXT_REFERENCE_LENGTH =>
            rendered.result.settings = BaseSettings

\* C14: a name of d > 0 characters more than the reference length gets the
\* font size base - 4 d brought into [60, 180], the radius base + 50 d and
\* the centre moved by 50 d; 23 characters give the font size base - 28
C14_ScalingOfLongNames ==
    \A op \in {"calculate_boat_text_settings",
               "create_personalized_boat_image"} :
        LET d == Len(rendered.name) - BOAT_TEXT_REFERENCE_LENGTH
            raw == BOAT_TEXT_BASE_FONT_SIZE - d * BOAT_TEXT_FONT_SCALE_PER_CHAR
            got == rendered.result.settings
        IN /\ Returned(op)
           /\ d > 0
           /\ op = "create_personalized_boat_image" => ~Blank(rendered.name)
           =>
              /\ got.font_size =
                    (IF raw < BOAT_TEXT_MIN_FONT_SIZE
                     THEN BOAT_TEXT_MIN_FONT_SIZE
                     ELSE IF raw > BOAT_TEXT_MAX_FONT_SIZE
                     THEN BOAT_TEXT_MAX_FONT_SIZE ELSE raw)
              /\ got.font_size >= BOAT_TEXT_MIN_FONT_SIZE
              /\ got.font_size <= BOAT_TEXT_MAX_FONT_SIZE
              /\ got.radius =
                    BOAT_TEXT_RADIUS + d * BOAT_TEXT_RADIUS_SCALE_PER_CHAR
              /\ got.center =
                    <<BOAT_TEXT_CENTER_X,
                      BOAT_TEXT_CENTER_Y + d * BOAT_TEXT_Y_SCALE_PER_CHAR>>
              /\ Len(rendered.name) = 23 =>
                    got.font_size = BOAT_TEXT_BASE_FONT_SIZE - 28

\* a name of 23 characters: font size 92, radius 3050
C14_Witness ==
    /\ Returned("calculate_boat_text_settings")
    /\ Len(rendered.name) = 23
    /\ rendered.result.settings.font_size = 92
    /\ rendered.result.settings.radius = 3050

\* the glyphs a returned call composited
GlyphsOf(call) ==
    IF call.op \in CreateOps THEN call.result.out.glyphs
    ELSE call.result.img.glyphs
\* the characters of the glyphs as they stand from left to right: along
\* the lower half of the circle x grows with the angle, along the upper
\* half it falls
LeftToRight(glyphs) ==
    IF glyphs = <<>> THEN <<>>
    ELSE IF glyphs[1].deg2 > 2 * 180
    THEN [k \in 1..Len(glyphs) |-> glyphs[k].ch]
    ELSE [k \in 1..Len(glyphs) |-> glyphs[Len(glyphs) + 1 - k].ch]
\* the angles of the glyphs grow in the order of compositing
Advancing(glyphs) ==
    \A k \in 1..(Len(glyphs) - 1) : glyphs[k].mid2 < glyphs[k + 1].mid2
\* the start of the first glyph and the end of the last are equally far
\* from angle_deg: no degrees added, and the span taken over the radius
\* the glyphs are placed with
Centred(glyphs, angle_deg) ==
    \A k \in 1..Len(glyphs) :
        /\ glyphs[k].deg2 = 2 * angle_deg
        /\ glyphs[k].span * (glyphs[k].radius - glyphs[k].over) = 0
BaseAngle(op) ==
    IF op \in {"create_personalized_image", "draw_text_on_arc"}
    THEN 270 ELSE BOAT_TEXT_ANGLE
\* a call that laid a text out
LaidOut(op) ==
    /\ Returned(op)
    /\ rendered.result.raised = "no"
    /\ op \in CreateOps => ~Blank(rendered.name)
    /\ op \in DrawOps => rendered.radius > 0
\* the length up to which draw_text_on_arc leaves angle and radius alone
PairedPlainLength == 6

\* C15: a layout places one glyph per character, the name reading from left
\* to right; the single-slot layout is centred on its base angle for every
\* length, the paired layout for up to six characters and for no longer text
C15_PlacementsCentred ==
    \A op \in CreateOps \cup DrawOps :
        LaidOut(op) =>
            LET glyphs == GlyphsOf(rendered) IN
            /\ Len(glyphs) = Len(rendered.name)
            /\ Advancing(glyphs)
            /\ op \in CreateOps => LeftToRight(glyphs) = rendered.name
            /\ op \in DrawOps =>
                  \A k \in 1..Len(glyphs) : glyphs[k].ch = rendered.name[k]
            /\ op \in {"create_personalized_boat_image",
                       "draw_boat_text_on_arc"} =>
                  Centred(glyphs, BaseAngle(op))
            /\ op \in {"create_personalized_image", "draw_text_on_arc"} =>
                  (Centred(glyphs, BaseAngle(op))
                      <=> Len(rendered.name) <= PairedPlainLength)

\* C15 as stated: every layout of at most BOAT_TEXT_REFERENCE_LENGTH
\* characters is centred on its base angle
C15_AsStated ==
    \A op \in CreateOps \cup DrawOps :
        LaidOut(op) /\ Len(rendered.name) <= BOAT_TEXT_REFERENCE_LENGTH =>
            /\ Len(GlyphsOf(rendered)) = Len(rendered.name)
            /\ Centred(GlyphsOf(rendered), BaseAngle(op))

\* a boat name of nine characters with blanks inside, laid out
C15_Witness ==
    /\ LaidOut("create_personalized_boat_image")
    /\ Len(rendered.name) = 9
    /\ rendered.name[6] = " "
    /\ Len(GlyphsOf(rendered)) = 9
    /\ Centred(GlyphsOf(rendered), BOAT_TEXT_ANGLE)

\* C16: an arc layout called with a radius that is not positive raises
\* ValueError and leaves the image as it was, no glyph composited
C16_RadiusNotPositiveRaises ==
    \A op \in DrawOps :
        Returned(op) /\ rendered.radius <= 0 =>
            /\ rendered.result.raised = "ValueError"
            /\ rendered.result.img = Opened(rendered.image_path)
            /\ rendered.result.img.glyphs = <<>>

\* "Johnny" laid out with radius 0
C16_Witness ==
    /\ Returned("draw_text_on_arc")
    /\ rendered.radius = 0
    /\ Len(rendered.name) = 6
    /\ rendered.result.raised = "ValueError"

\* ---- inputs that do not exist, skipped requests, failed assemblies ------
\* C17: when the order list, the artwork folder or a template (paired or
\* single-slot) does not exist, process_all_orders returns False and has
\* created, deleted and changed nothing
C17_AsStated ==
    [][(/\ pc = "generate"
        /\ missing \cap {"csv", "images", "template", "boat_template"} # {})
          => /\ ~success'
             /\ cwd' = cwd
             /\ outputs' = outputs
             /\ ~asmLog'.ran]_vars

\* the requests of the batch whose artwork was not found or whose
\* rendering raised
SkippedRequests ==
    {i \in 1..Len(csv) :
        \/ Entry("Image not found", NoName, i) \in log
        \/ Entry("ERROR creating image", NoName, i) \in log}
\* the requests that have an artifact in the outputs folder
RenderedRequests ==
    {outputs.magnet[k].req : k \in 1..Len(outputs.magnet)}
        \cup {outputs.boat[k].req : k \in 1..Len(outputs.boat)}
\* the requests that have an artifact on a page of a document of the batch
PlacedRequests ==
    UNION {UNION {{a.req : a \in Range(cwd[f].pages[j].arts)} :
                     j \in 1..PageCount(cwd[f])} : f \in BatchDocuments}

\* C18: once the image loops have run, a request whose artwork was not
\* found or whose rendering raised has no artifact and is on no page, and
\* every other request of the batch has its artifact
C18_FailedRequestSkipped ==
    Reached("Generate") =>
        /\ SkippedRequests \cap RenderedRequests = {}
        /\ SkippedRequests \cap PlacedRequests = {}
        /\ (1..Len(csv)) \ SkippedRequests = RenderedRequests

\* three requests, the rendering of one raises: the other two are paired
C18_Witness ==
    /\ Reached("Generate")
    /\ \E i \in 1..Len(csv) : Entry("ERROR creating image", NoName, i) \in log
    /\ Cardinality(RenderedRequests) = 2
    /\ Cardinality(PlacedRequests) = 2

\* the file name of the document of a placement: pair or boat number at
PlacementName(op, at) ==
    IF op = "asm" THEN OrderName(clock, at) ELSE BoatName(clock, at)
\* the placements the assembler had to make: one per pair, one per boat
Placements ==
    {<<"asm", p>> : p \in 1..(Len(asmLog.images) \div 2)}
        \cup {<<"boat_asm", b>> : b \in 1..Len(asmLog.boats)}

\* C19: a placement whose assembly raised before writing (template or
\* artifact missing or invalid) has no file; a placement whose assembly
\* failed in any way has no valid document; every other pair and every
\* other boat of the batch has its valid document
C19_FailedPlacementSkipped ==
    asmLog.ran =>
        /\ \A f \in asmLog.failed :
              /\ <<f.op, f.at>> \in Placements
              /\ ~ValidPdf(cwd, PlacementName(f.op, f.at))
              /\ f.how = "raise" => ~Exists(cwd, PlacementName(f.op, f.at))
        /\ \A pl \in Placements :
              (\A f \in asmLog.failed : <<f.op, f.at>> # pl)
                  => ValidPdf(cwd, PlacementName(pl[1], pl[2]))

\* a pair and a boat, the assembly of the pair raised: the boat document
\* is there
C19_Witness ==
    /\ asmLog.ran
    /\ \E f \in asmLog.failed : f.op = "asm" /\ f.how = "raise"
    /\ Len(asmLog.boats) = 1
    /\ ValidPdf(cwd, BoatName(clock, 1))

\* ---- a merge that fails -------------------------------------------------
\* self.master_pdf_path: the master document the window offers to open, set
\* after STEP 6 of the latest batch that got that far
master_pdf_path ==
    IF verified = {} THEN NoName ELSE MasterName(MaxOf(verified))

\* C20: a Merge step whose merge_pdfs returned False ends the run: the
\* worker goes to its end without STEP 5 and STEP 6, no master document of
\* this batch is reported, and every per-order document is in the working
\* directory as it was before
C20_MergeFailureKeepsPages ==
    [][/\ (pc = "merge" /\ ~merged'.ret) =>
              /\ pc' = "finally"
              /\ verified' = verified
              /\ \A f \in DOMAIN cwd :
                    ~IsMasterPdf(f) => Exists(cwd', f) /\ cwd'[f] = cwd[f]
       /\ (pc = "finally" /\ merged.ran /\ ~merged.ret) =>
              /\ ~Reached("FlattenMaster")
              /\ ~Reached("FinalVerify")
              /\ master_pdf_path # MasterName(clock)
              /\ pc' = "idle"]_vars

\* the merge of two valid documents failed: both are still there
C20_Witness ==
    /\ pc = "finally"
    /\ merged.ran
    /\ ~merged.ret
    /\ Len(merged.valid) = 2
    /\ \A k \in 1..Len(pdf_files) : ValidPdf(cwd, pdf_files[k])
    /\ Entry("Error merging PDFs", NoName, 0) \in log

\* ---- the result of the batch and the pages of the master ----------------
\* C22 (as stated): process_all_orders returns True only when it has created
\* at least one document of the batch
C22_AsStated ==
    Reached("Generate") /\ success =>
        \E f \in BatchDocuments : Exists(cwd, f)

\* C23 (as stated): after a successful merge a collected document whose page
\* count is not 1 or whose size is 0 has no page in the master
C23_AsStated ==
    pc = "finally" /\ merged.ret =>
        \A k \in 1..Len(pdf_files) :
            (\/ ~Exists(cwd, pdf_files[k])
             \/ cwd[pdf_files[k]].size = 0
             \/ PageCount(cwd[pdf_files[k]]) # 1)
                => PagesFrom(cwd[master], pdf_files[k]) = {}

\* C26 (as stated): every page of the master is the page of its source
\* document that carries the artifacts, page num_pages // 2 of the template
C26_AsStated ==
    pc = "finally" /\ merged.ret =>
        \A k \in 1..Len(cwd[master].pages) :
            /\ cwd[master].pages[k].page.arts # <<>>
            /\ cwd[master].pages[k].page.no - 1 = tplPages \div 2

\* C27 (as stated): draw_text_on_arc called with a radius above 0 divides
\* the text width by a radius above 0, whatever the length of the text
C27_AsStated ==
    Returned("draw_text_on_arc") /\ rendered.radius > 0 =>
        /\ rendered.result.raised = "no"
        /\ \A k \in 1..Len(rendered.result.img.glyphs) :
              rendered.result.img.glyphs[k].over > 0

\* the paired-style requests of the batch that were rendered, in the order
\* of the order list
RenderedMagnets ==
    SelectSeq([i \in 1..Len(csv) |-> i],
              LAMBDA i : ~is_boat_order(csv[i]) /\ i \notin SkippedRequests)

\* C28: artifact j of the batch is the j-th paired-style request that was
\* rendered, in request order and without a gap; document p holds artifact
\* 2p - 1 at the top and artifact 2p at the bottom
C28_ContiguousNumbering ==
    Reached("Generate") =>
        /\ Len(outputs.magnet) = Len(RenderedMagnets)
        /\ \A j \in 1..Len(outputs.magnet) :
              outputs.magnet[j].req = RenderedMagnets[j]
        /\ \A p \in 1..(Len(outputs.magnet) \div 2) :
              ValidPdf(cwd, OrderName(clock, p)) =>
                 \E j \in 1..PageCount(cwd[OrderName(clock, p)]) :
                    LET a == cwd[OrderName(clock, p)].pages[j].arts IN
                    /\ Len(a) = 2
                    /\ a[1].req = RenderedMagnets[2 * p - 1] /\ a[1].y = ty1
                    /\ a[2].req = RenderedMagnets[2 * p] /\ a[2].y = ty2

\* three requests, the first is not rendered: artifacts 1 and 2 are requests
\* 2 and 3, and they share document 1
C28_Witness ==
    /\ Reached("Generate")
    /\ Len(csv) = 3
    /\ 1 \in SkippedRequests
    /\ Len(outputs.magnet) = 2
    /\ outputs.magnet[1].req = 2
    /\ ValidPdf(cwd, OrderName(clock, 1))

\* ---- temporary files ----------------------------------------------------
\* the temporary documents a call writes
TempFilesOf(op) ==
    IF op = "create_pdf_with_images" THEN {"temp_1.pdf", "temp_2.pdf"}
    ELSE {"temp_boat.pdf"}

\* C24 (as stated): when create_pdf_with_images or create_boat_pdf has
\* returned or raised, its temporary documents are gone, unless it was their
\* deletion that failed, and then the call still returned its document
C24_AsStated ==
    \A op \in {"create_pdf_with_images", "create_boat_pdf"} :
        Returned(op) =>
            IF rendered.fault \in {"remove1", "remove2"}
            THEN rendered.result.raised = "no" /\ rendered.result.written
            ELSE rendered.result.temp \cap TempFilesOf(op) = {}

\* ---- completion of the upstream orders -----------------------------------
\* the orders of the running batch that the state file reports as completed
MarkedInBatch ==
    {k \in 1..Len(csv) : OrderNumber(clock, k) \in load_order_state(order_state)}

\* C21 as stated: an order of the batch is marked completed only if the
\* batch returned success and the request of the order was consumed (it has
\* an artifact); a batch that returns failure marks no order
C21_AsStated ==
    Reached("Generate") =>
        /\ MarkedInBatch \subseteq RenderedRequests
        /\ ~success => MarkedInBatch = {}

\* ---- pulls of orders -----------------------------------------------------
PullsAtRest == \A t \in 1..MaxPulls : pulls[t].pc \in {"idle", "done"}
SectionsOf(order_no) == {k \in 1..Len(snippets) : snippets[k] = order_no}

\* C29 as stated: when no pull is running, each order number heads at most
\* one section of the ingested-orders file, and the key of every message
\* that was handled is in the processed file
C29_AsStated ==
    PullsAtRest =>
        /\ \A order_no \in 1..MaxOrders :
              Cardinality(SectionsOf(order_no)) <= 1
        /\ \A k \in 1..Len(snippets) :
              snippets[k] # 0 =>
                  processed_key(Message(0, snippets[k]))
                      \in load_processed_set(processed_file)

\* ---- completion is kept --------------------------------------------------
Completed(order_number) == order_number \in load_order_state(order_state)
AllOrders == get_all_orders_with_status(order_state, snippets)
PendingList == get_pending_orders(order_state, snippets)
CompletedList == get_completed_orders(order_state, snippets)

\* every parsed order is in exactly one of the two lists
InOneList ==
    /\ Len(PendingList) + Len(CompletedList) = Len(AllOrders)
    /\ \A o \in Range(AllOrders) :
          (o \in Range(PendingList)) # (o \in Range(CompletedList))

\* a step keeps every completed order completed, and a marking changes the
\* completion of the selected orders only
CompletionKept ==
    \A order_number \in 0..MaxOrders :
        /\ Completed(order_number) => Completed(order_number)'
        /\ order_number \notin Range(selected_orders) =>
              Completed(order_number)' = Completed(order_number)

\* C30 as stated: completion is monotonic, marking some orders leaves the
\* others as they are, and at any time every parsed order is in exactly one
\* of the pending and completed lists
C30_AsStated == [](InOneList) /\ [][CompletionKept]_vars

\* ---- one batch at a time -------------------------------------------------
\* the worker threads that are at work on the working directory, the
\* outputs folder or the archive
ActiveWorkers ==
    {w \in 1..Len(workers) : workers[w] \in {"cleanup", "generate"}}

\* C25 as stated: at most one batch worker is active at any time, so two
\* batches never operate on the output and archive directories concurrently
C25_AsStated == Cardinality(ActiveWorkers) <= 1

============================================================================
